---------------------------- MODULE Spec2Model ----------------------------
(***************************************************************************)
(* A model of fexpr: the filter-expression scanner (src/src/scanner.rs)    *)
(* and the recursive-descent parser (src/src/parser.rs).                   *)
(*                                                                         *)
(* A character is a one-character string; the two bytes that have no       *)
(* one-character spelling are named: EOF is the byte 0 (the scanner's end  *)
(* marker '\0'), and the members of HighBytes are bytes >= 0x80, which     *)
(* char::from turns into a char whose UTF-8 form is two bytes long.        *)
(* A text (a buffer, a literal) is a sequence of characters.               *)
(***************************************************************************)
EXTENDS Integers, Sequences, FiniteSets, TLC

(***************************************************************************)
(* Characters                                                              *)
(***************************************************************************)
EOF == "NUL"

HighBytes == {"0x80", "0xC3"}

Letters ==
    {"a", "b", "c", "d", "e", "f", "g", "h", "i", "j", "k", "l", "m",
     "n", "o", "p", "q", "r", "s", "t", "u", "v", "w", "x", "y", "z",
     "A", "B", "C", "D", "E", "F", "G", "H", "I", "J", "K", "L", "M",
     "N", "O", "P", "Q", "R", "S", "T", "U", "V", "W", "X", "Y", "Z"}

Digits == {"0", "1", "2", "3", "4", "5", "6", "7", "8", "9"}

\* char::len_utf8 of char::from(byte)
len_utf8(ch) == IF ch \in HighBytes THEN 2 ELSE 1

is_whitespace_char(ch) == ch = " " \/ ch = "\t" \/ ch = "\n"

is_letter_char(ch) == ch \in Letters

is_digit_char(ch) == ch \in Digits

is_identifier_start_char(ch) ==
    is_letter_char(ch) \/ ch = "_" \/ ch = "@" \/ ch = "#"

is_text_start_char(ch) == ch = "'" \/ ch = "\""

is_number_start_char(ch) == ch = "-" \/ is_digit_char(ch)

is_sign_start_char(ch) ==
    ch = "=" \/ ch = "?" \/ ch = "!" \/ ch = ">" \/ ch = "<" \/ ch = "~"

is_join_start_char(ch) == ch = "&" \/ ch = "|"

is_group_start_char(ch) == ch = "("

is_comment_start_char(ch) == ch = "/"

(***************************************************************************)
(* Operators and tokens                                                    *)
(***************************************************************************)
\* Option<T>: None is the empty sequence, Some(x) is <<x>>.
None == <<>>

Some(x) == <<x>>

\* from_str with the two operators exchanged
JoinOp_from_str_Swapped(str) ==
    CASE str = <<"&", "&">> -> Some("Or")
      [] str = <<"|", "|">> -> Some("And")
      [] OTHER -> None

JoinOp_from_str(str) ==
    CASE str = <<"&", "&">> -> Some("And")
      [] str = <<"|", "|">> -> Some("Or")
      [] OTHER -> None

JoinOp_as_str(op) ==
    CASE op = "And" -> <<"&", "&">>
      [] op = "Or" -> <<"|", "|">>

SignOp_from_str(str) ==
    CASE str = <<"=">> -> Some("Eq")
      [] str = <<"!", "=">> -> Some("Neq")
      [] str = <<"~">> -> Some("Like")
      [] str = <<"!", "~">> -> Some("Nlike")
      [] str = <<"<">> -> Some("Lt")
      [] str = <<"<", "=">> -> Some("Lte")
      [] str = <<">">> -> Some("Gt")
      [] str = <<">", "=">> -> Some("Gte")
      [] str = <<"?", "=">> -> Some("AnyEq")
      [] str = <<"?", "!", "=">> -> Some("AnyNeq")
      [] str = <<"?", "~">> -> Some("AnyLike")
      [] str = <<"?", "!", "~">> -> Some("AnyNlike")
      [] str = <<"?", "<">> -> Some("AnyLt")
      [] str = <<"?", "<", "=">> -> Some("AnyLte")
      [] str = <<"?", ">">> -> Some("AnyGt")
      [] str = <<"?", ">", "=">> -> Some("AnyGte")
      [] OTHER -> None

SignOp_as_str(op) ==
    CASE op = "None" -> <<>>
      [] op = "Eq" -> <<"=">>
      [] op = "Neq" -> <<"!", "=">>
      [] op = "Like" -> <<"~">>
      [] op = "Nlike" -> <<"!", "~">>
      [] op = "Lt" -> <<"<">>
      [] op = "Lte" -> <<"<", "=">>
      [] op = "Gt" -> <<">">>
      [] op = "Gte" -> <<">", "=">>
      [] op = "AnyEq" -> <<"?", "=">>
      [] op = "AnyNeq" -> <<"?", "!", "=">>
      [] op = "AnyLike" -> <<"?", "~">>
      [] op = "AnyNlike" -> <<"?", "!", "~">>
      [] op = "AnyLt" -> <<"?", "<">>
      [] op = "AnyLte" -> <<"?", "<", "=">>
      [] op = "AnyGt" -> <<"?", ">">>
      [] op = "AnyGte" -> <<"?", ">", "=">>

\* enum Token: the variant and the String it carries (Token::None carries none).
Token(kind, literal) == [kind |-> kind, literal |-> literal]

TokenNone == Token("None", <<>>)

\* the tests taking a literal that starts with an operator
is_sign_operator_Prefix(literal) ==
    \E k \in 1..Len(literal) : SignOp_from_str(SubSeq(literal, 1, k)) # None

is_join_operator_Prefix(literal) ==
    \E k \in 1..Len(literal) : JoinOp_from_str(SubSeq(literal, 1, k)) # None

is_sign_operator(literal) == SignOp_from_str(literal) # None

is_join_operator(literal) == JoinOp_from_str(literal) # None

\* str::parse::<f64>, on the characters a number run can hold (a first '-'
\* or digit, then digits and '.'): Sign? (Digit+ | Digit+ '.' Digit* |
\* Digit* '.' Digit+); any other character makes the parse fail.
parse_f64_is_ok(literal) ==
    LET body == IF literal # <<>> /\ literal[1] \in {"-", "+"}
                THEN Tail(literal) ELSE literal
        dots == {i \in 1..Len(body) : body[i] = "."}
        digs == {i \in 1..Len(body) : body[i] \in Digits}
    IN  /\ dots \cup digs = 1..Len(body)
        /\ Cardinality(dots) <= 1
        /\ digs # {}

\* is_number without the test for a final '.'
is_number_NoDotCheck(literal) ==
    IF literal = <<>>
    THEN FALSE
    ELSE parse_f64_is_ok(literal)

\* is_number asking for a digit right after the optional '-'
is_number_Strict(literal) ==
    /\ is_number_NoDotCheck(literal)
    /\ literal[Len(literal)] # "."
    /\ LET body == IF literal[1] = "-" THEN Tail(literal) ELSE literal IN
       body # <<>> /\ body[1] \in Digits

is_number(literal) ==
    IF literal = <<>> \/ literal[Len(literal)] = "."
    THEN FALSE
    ELSE parse_f64_is_ok(literal)

\* \w of the regex, over the bytes an identifier run can hold
WordChars == Letters \cup Digits \cup {"_"}

\* the pattern without its final \w+
is_identifier_AnyEnd(literal) ==
    /\ Len(literal) >= 1
    /\ literal[1] \in WordChars \cup {".", ":", "@", "#"}
    /\ \A i \in 2..Len(literal) : literal[i] \in WordChars \cup {".", ":"}

\* an identifier check that lets `@` and `#` stand at any place but the last
is_identifier_SigilAnywhere(literal) ==
    /\ Len(literal) >= 1
    /\ literal[Len(literal)] \in WordChars
    /\ \A i \in 1..Len(literal) : literal[i] \in WordChars \cup {".", ":", "@", "#"}

\* IDENTIFIER_REGEX ^[\@\#\_]?[\w\.\:]*\w+$
is_identifier(literal) ==
    /\ Len(literal) >= 1
    /\ literal[Len(literal)] \in WordChars
    /\ literal[1] \in WordChars \cup {".", ":", "@", "#"}
    /\ \A i \in 2..Len(literal) : literal[i] \in WordChars \cup {".", ":"}


(***************************************************************************)
(* Scanner: a buffer of bytes and a cursor pos, 0 <= pos <= Len(buffer).   *)
(* Every routine maps (buffer, pos) to what it returns and the cursor it   *)
(* leaves.  A routine's outcome is a record                                *)
(*   [st, tok, err, pos]: st = "ok" with the token, st = "err" with the    *)
(*   Error kind, or st = "panic" when the thread unwinds.  Of the error    *)
(*   messages only the one number that is formatted into a message is      *)
(*   kept: missing, the {open_groups} of scan_group's message (0 in every  *)
(*   other outcome).                                                       *)
(***************************************************************************)
ScanOk(tok, pos) ==
    [st |-> "ok", tok |-> tok, err |-> "", pos |-> pos, missing |-> 0]

ScanErr(kind, pos) ==
    [st |-> "err", tok |-> TokenNone, err |-> kind, pos |-> pos, missing |-> 0]

ScanPanic(pos) ==
    [st |-> "panic", tok |-> TokenNone, err |-> "", pos |-> pos, missing |-> 0]

\* Error::Invalid("Invalid formatted group - missing {open_groups} closing
\* bracket(s)")
ScanErrGroup(open_groups, pos) ==
    [ScanErr("Invalid", pos) EXCEPT !.missing = open_groups]

\* Scanner::read: the next char and the cursor after it
read(buffer, pos) ==
    IF pos = Len(buffer)
    THEN [ch |-> EOF, pos |-> pos]
    ELSE [ch |-> buffer[pos + 1], pos |-> pos + 1]

\* Scanner::unread
unread(pos) == IF pos > 0 THEN pos - 1 ELSE pos

\* Buffer::write_char: encode_utf8 into a one-byte array panics when the
\* char needs more than one byte; otherwise the byte is appended.
write_char_panics(ch) == len_utf8(ch) > 1

write_char(buf, ch) == Append(buf, ch)

\* write_string dropping the first and the last character of str
write_string_Unquoted(buf, str) == buf \o SubSeq(str, 2, Len(str) - 1)

\* Buffer::write_string
write_string(buf, str) == buf \o str

\* The scanning loops: each returns [pos, buf, panic] (and what else the
\* routine computes in the loop).
RECURSIVE scan_whitespace_loop(_, _, _)
scan_whitespace_loop(buffer, pos, buf) ==
    LET r == read(buffer, pos) IN
    IF r.ch = EOF THEN [pos |-> r.pos, buf |-> buf, panic |-> FALSE]
    ELSE IF ~is_whitespace_char(r.ch)
         THEN [pos |-> unread(r.pos), buf |-> buf, panic |-> FALSE]
    ELSE IF write_char_panics(r.ch)
         THEN [pos |-> r.pos, buf |-> buf, panic |-> TRUE]
    ELSE scan_whitespace_loop(buffer, r.pos, write_char(buf, r.ch))

scan_whitespace(buffer, pos) ==
    LET l == scan_whitespace_loop(buffer, pos, <<>>) IN
    IF l.panic THEN ScanPanic(l.pos) ELSE ScanOk(Token("Ws", l.buf), l.pos)

RECURSIVE scan_identifier_loop(_, _, _)
scan_identifier_loop(buffer, pos, buf) ==
    LET r == read(buffer, pos) IN
    IF r.ch = EOF THEN [pos |-> r.pos, buf |-> buf, panic |-> FALSE]
    ELSE IF /\ ~is_identifier_start_char(r.ch)
            /\ ~is_digit_char(r.ch)
            /\ r.ch # "."
            /\ r.ch # ":"
         THEN [pos |-> unread(r.pos), buf |-> buf, panic |-> FALSE]
    ELSE IF write_char_panics(r.ch)
         THEN [pos |-> r.pos, buf |-> buf, panic |-> TRUE]
    ELSE scan_identifier_loop(buffer, r.pos, write_char(buf, r.ch))

scan_identifier(buffer, pos) ==
    LET l == scan_identifier_loop(buffer, pos, <<>>) IN
    IF l.panic THEN ScanPanic(l.pos)
    ELSE IF ~is_identifier(l.buf) THEN ScanErr("Invalid", l.pos)
    ELSE ScanOk(Token("Identifier", l.buf), l.pos)

RECURSIVE scan_number_loop(_, _, _)
scan_number_loop(buffer, pos, buf) ==
    LET r == read(buffer, pos) IN
    IF r.ch = EOF THEN [pos |-> r.pos, buf |-> buf, panic |-> FALSE]
    ELSE IF ~is_digit_char(r.ch) /\ r.ch # "."
         THEN [pos |-> unread(r.pos), buf |-> buf, panic |-> FALSE]
    ELSE IF write_char_panics(r.ch)
         THEN [pos |-> r.pos, buf |-> buf, panic |-> TRUE]
    ELSE scan_number_loop(buffer, r.pos, write_char(buf, r.ch))

scan_number(buffer, pos) ==
    LET first == read(buffer, pos) IN
    IF write_char_panics(first.ch) THEN ScanPanic(first.pos)
    ELSE
    LET l == scan_number_loop(buffer, first.pos, write_char(<<>>, first.ch)) IN
    IF l.panic THEN ScanPanic(l.pos)
    ELSE IF ~is_number(l.buf) THEN ScanErr("Invalid", l.pos)
    ELSE ScanOk(Token("Number", l.buf), l.pos)

\* the loop of scan_text: also has_matching_quotes
RECURSIVE scan_text_loop(_, _, _, _, _)
scan_text_loop(buffer, pos, buf, first_ch, prev_ch) ==
    LET r == read(buffer, pos) IN
    IF r.ch = EOF
    THEN [pos |-> r.pos, buf |-> buf, panic |-> FALSE,
          has_matching_quotes |-> FALSE]
    ELSE IF write_char_panics(r.ch)
    THEN [pos |-> r.pos, buf |-> buf, panic |-> TRUE,
          has_matching_quotes |-> FALSE]
    ELSE IF r.ch = first_ch /\ prev_ch # "\\"
    THEN [pos |-> r.pos, buf |-> write_char(buf, r.ch), panic |-> FALSE,
          has_matching_quotes |-> TRUE]
    ELSE scan_text_loop(buffer, r.pos, write_char(buf, r.ch), first_ch, r.ch)

\* a replace that drops the backslash before either quote character
RECURSIVE str_replace2_AnyQuote(_, _, _)
str_replace2_AnyQuote(str, from, to) ==
    IF Len(str) < 2 THEN str
    ELSE IF str[1] = "\\" /\ str[2] \in {"'", "\""}
         THEN <<str[2]>> \o
              str_replace2_AnyQuote(SubSeq(str, 3, Len(str)), from, to)
    ELSE <<str[1]>> \o str_replace2_AnyQuote(Tail(str), from, to)

\* str::replace(from, to) for a two-character from and a one-character to:
\* the non-overlapping matches, left to right
RECURSIVE str_replace2(_, _, _)
str_replace2(str, from, to) ==
    IF Len(str) < 2 THEN str
    ELSE IF str[1] = from[1] /\ str[2] = from[2]
         THEN to \o str_replace2(SubSeq(str, 3, Len(str)), from, to)
    ELSE <<str[1]>> \o str_replace2(Tail(str), from, to)

\* literal[1..literal.len() - 1]: panics when the range is out of order
unquote_panics(literal) == Len(literal) < 2

unquote(literal) == SubSeq(literal, 2, Len(literal) - 1)

scan_text(buffer, pos, preserve_quotes) ==
    LET first == read(buffer, pos) IN
    IF write_char_panics(first.ch) THEN ScanPanic(first.pos)
    ELSE
    LET l == scan_text_loop(buffer, first.pos, write_char(<<>>, first.ch),
                            first.ch, EOF)
    IN
    IF l.panic THEN ScanPanic(l.pos)
    ELSE IF ~l.has_matching_quotes THEN ScanErr("Invalid", l.pos)
    ELSE IF ~preserve_quotes
         THEN IF unquote_panics(l.buf) THEN ScanPanic(l.pos)
              ELSE ScanOk(Token("Text",
                                str_replace2(unquote(l.buf),
                                             <<"\\", first.ch>>, <<first.ch>>)),
                          l.pos)
    ELSE ScanOk(Token("Text", l.buf), l.pos)

RECURSIVE scan_sign_loop(_, _, _)
scan_sign_loop(buffer, pos, buf) ==
    LET r == read(buffer, pos) IN
    IF r.ch = EOF THEN [pos |-> r.pos, buf |-> buf, panic |-> FALSE]
    ELSE IF ~is_sign_start_char(r.ch)
         THEN [pos |-> unread(r.pos), buf |-> buf, panic |-> FALSE]
    ELSE IF write_char_panics(r.ch)
         THEN [pos |-> r.pos, buf |-> buf, panic |-> TRUE]
    ELSE scan_sign_loop(buffer, r.pos, write_char(buf, r.ch))

scan_sign(buffer, pos) ==
    LET l == scan_sign_loop(buffer, pos, <<>>) IN
    IF l.panic THEN ScanPanic(l.pos)
    ELSE IF ~is_sign_operator(l.buf) THEN ScanErr("Invalid", l.pos)
    ELSE ScanOk(Token("Sign", l.buf), l.pos)

RECURSIVE scan_join_loop(_, _, _)
scan_join_loop(buffer, pos, buf) ==
    LET r == read(buffer, pos) IN
    IF r.ch = EOF THEN [pos |-> r.pos, buf |-> buf, panic |-> FALSE]
    ELSE IF ~is_join_start_char(r.ch)
         THEN [pos |-> unread(r.pos), buf |-> buf, panic |-> FALSE]
    ELSE IF write_char_panics(r.ch)
         THEN [pos |-> r.pos, buf |-> buf, panic |-> TRUE]
    ELSE scan_join_loop(buffer, r.pos, write_char(buf, r.ch))

scan_join(buffer, pos) ==
    LET l == scan_join_loop(buffer, pos, <<>>) IN
    IF l.panic THEN ScanPanic(l.pos)
    ELSE IF ~is_join_operator(l.buf) THEN ScanErr("Invalid", l.pos)
    ELSE ScanOk(Token("Join", l.buf), l.pos)

\* the loop of scan_group: also open_groups, and the error of a failed
\* scan_text(true) ("" when none)
RECURSIVE scan_group_loop(_, _, _, _)
scan_group_loop(buffer, pos, buf, open_groups) ==
    LET r == read(buffer, pos)
        done(p, b, n, panic, err) ==
            [pos |-> p, buf |-> b, open_groups |-> n, panic |-> panic,
             err |-> err]
    IN
    IF r.ch = EOF THEN done(r.pos, buf, open_groups, FALSE, "")
    ELSE IF is_group_start_char(r.ch)
    THEN IF write_char_panics(r.ch)
         THEN done(r.pos, buf, open_groups + 1, TRUE, "")
         ELSE scan_group_loop(buffer, r.pos, write_char(buf, r.ch),
                              open_groups + 1)
    ELSE IF is_text_start_char(r.ch)
    THEN LET t == scan_text(buffer, unread(r.pos), TRUE) IN
         IF t.st = "panic" THEN done(t.pos, buf, open_groups, TRUE, "")
         ELSE IF t.st = "err" THEN done(t.pos, buf, open_groups, FALSE, t.err)
         ELSE scan_group_loop(buffer, t.pos, write_string(buf, t.tok.literal),
                              open_groups)
    ELSE IF r.ch = ")"
    THEN IF open_groups - 1 <= 0
         THEN done(r.pos, buf, open_groups - 1, FALSE, "")
         ELSE IF write_char_panics(r.ch)
         THEN done(r.pos, buf, open_groups - 1, TRUE, "")
         ELSE scan_group_loop(buffer, r.pos, write_char(buf, r.ch),
                              open_groups - 1)
    ELSE IF write_char_panics(r.ch)
    THEN done(r.pos, buf, open_groups, TRUE, "")
    ELSE scan_group_loop(buffer, r.pos, write_char(buf, r.ch), open_groups)

scan_group(buffer, pos) ==
    LET first == read(buffer, pos)
        l == scan_group_loop(buffer, first.pos, <<>>, 1)
    IN
    IF l.panic THEN ScanPanic(l.pos)
    ELSE IF l.err # "" THEN ScanErr(l.err, l.pos)
    ELSE IF ~is_group_start_char(first.ch) \/ l.open_groups > 0
         THEN ScanErrGroup(l.open_groups, l.pos)
    ELSE ScanOk(Token("Group", l.buf), l.pos)

RECURSIVE scan_comment_loop(_, _, _)
scan_comment_loop(buffer, pos, buf) ==
    LET r == read(buffer, pos) IN
    IF r.ch = EOF \/ r.ch = "\n"
    THEN [pos |-> r.pos, buf |-> buf, panic |-> FALSE]
    ELSE IF write_char_panics(r.ch)
         THEN [pos |-> r.pos, buf |-> buf, panic |-> TRUE]
    ELSE scan_comment_loop(buffer, r.pos, write_char(buf, r.ch))

\* str::trim: the White_Space characters among the single bytes
TrimChars == {" ", "\t", "\n", "\r", "\f"}

RECURSIVE trim_start(_)
trim_start(str) ==
    IF str # <<>> /\ str[1] \in TrimChars THEN trim_start(Tail(str)) ELSE str

RECURSIVE trim_end(_)
trim_end(str) ==
    IF str # <<>> /\ str[Len(str)] \in TrimChars
    THEN trim_end(SubSeq(str, 1, Len(str) - 1))
    ELSE str

trim(str) == trim_end(trim_start(str))

scan_comment(buffer, pos) ==
    LET c1 == read(buffer, pos)
        c2 == read(buffer, c1.pos)
    IN
    IF ~is_comment_start_char(c1.ch) THEN ScanErr("Invalid", c1.pos)
    ELSE IF ~is_comment_start_char(c2.ch) THEN ScanErr("Invalid", c2.pos)
    ELSE
    LET l == scan_comment_loop(buffer, c2.pos, <<>>) IN
    IF l.panic THEN ScanPanic(l.pos)
    ELSE ScanOk(Token("Comment", trim(l.buf)), l.pos)

(***************************************************************************)
(* The cursor under the same routines: the read() and unread() calls that  *)
(* one scan() makes, in order, each with the cursor before and after it.   *)
(***************************************************************************)
read_op(buffer, pos) ==
    [op |-> "read", from |-> pos, to |-> read(buffer, pos).pos]

unread_op(pos) == [op |-> "unread", from |-> pos, to |-> unread(pos)]

\* the test that ends the loop of a routine that scans a run
run_goes_on(routine, ch) ==
    CASE routine = "scan_whitespace" -> is_whitespace_char(ch)
      [] routine = "scan_identifier" ->
            is_identifier_start_char(ch) \/ is_digit_char(ch)
                \/ ch = "." \/ ch = ":"
      [] routine = "scan_number" -> is_digit_char(ch) \/ ch = "."
      [] routine = "scan_sign" -> is_sign_start_char(ch)
      [] routine = "scan_join" -> is_join_start_char(ch)

\* a run loop that also calls unread() when read() returned EOF
RECURSIVE run_loop_ops_UnreadAtEof(_, _, _)
run_loop_ops_UnreadAtEof(buffer, pos, routine) ==
    LET r == read(buffer, pos) IN
    <<read_op(buffer, pos)>> \o
        (IF r.ch = EOF \/ ~run_goes_on(routine, r.ch)
         THEN <<unread_op(r.pos)>>
         ELSE IF write_char_panics(r.ch) THEN <<>>
         ELSE run_loop_ops_UnreadAtEof(buffer, r.pos, routine))

\* the loops of scan_whitespace, scan_identifier, scan_number, scan_sign and
\* scan_join: lines 244-258, 269-283, 303-317, 379-393, 410-424
RECURSIVE run_loop_ops(_, _, _)
run_loop_ops(buffer, pos, routine) ==
    LET r == read(buffer, pos) IN
    <<read_op(buffer, pos)>> \o
        (IF r.ch = EOF THEN <<>>
         ELSE IF ~run_goes_on(routine, r.ch) THEN <<unread_op(r.pos)>>
         ELSE IF write_char_panics(r.ch) THEN <<>>
         ELSE run_loop_ops(buffer, r.pos, routine))

\* scan_number: the first read() of line 299, then the loop
scan_number_ops(buffer, pos) ==
    LET first == read(buffer, pos) IN
    <<read_op(buffer, pos)>> \o
        (IF write_char_panics(first.ch) THEN <<>>
         ELSE run_loop_ops(buffer, first.pos, "scan_number"))

RECURSIVE scan_text_loop_ops(_, _, _, _)
scan_text_loop_ops(buffer, pos, first_ch, prev_ch) ==
    LET r == read(buffer, pos) IN
    <<read_op(buffer, pos)>> \o
        (IF r.ch = EOF \/ write_char_panics(r.ch) THEN <<>>
         ELSE IF r.ch = first_ch /\ prev_ch # "\\" THEN <<>>
         ELSE scan_text_loop_ops(buffer, r.pos, first_ch, r.ch))

\* scan_text: lines 332-356
scan_text_ops(buffer, pos) ==
    LET first == read(buffer, pos) IN
    <<read_op(buffer, pos)>> \o
        (IF write_char_panics(first.ch) THEN <<>>
         ELSE scan_text_loop_ops(buffer, first.pos, first.ch, EOF))

RECURSIVE scan_group_loop_ops(_, _, _)
scan_group_loop_ops(buffer, pos, open_groups) ==
    LET r == read(buffer, pos) IN
    <<read_op(buffer, pos)>> \o
        (IF r.ch = EOF THEN <<>>
         ELSE IF is_group_start_char(r.ch)
         THEN IF write_char_panics(r.ch) THEN <<>>
              ELSE scan_group_loop_ops(buffer, r.pos, open_groups + 1)
         ELSE IF is_text_start_char(r.ch)
         THEN LET t == scan_text(buffer, unread(r.pos), TRUE) IN
              <<unread_op(r.pos)>> \o scan_text_ops(buffer, unread(r.pos)) \o
                  (IF t.st # "ok" THEN <<>>
                   ELSE scan_group_loop_ops(buffer, t.pos, open_groups))
         ELSE IF r.ch = ")"
         THEN IF open_groups - 1 <= 0 THEN <<>>
              ELSE IF write_char_panics(r.ch) THEN <<>>
              ELSE scan_group_loop_ops(buffer, r.pos, open_groups - 1)
         ELSE IF write_char_panics(r.ch) THEN <<>>
         ELSE scan_group_loop_ops(buffer, r.pos, open_groups))

\* scan_group: lines 440-472
scan_group_ops(buffer, pos) ==
    <<read_op(buffer, pos)>> \o
        scan_group_loop_ops(buffer, read(buffer, pos).pos, 1)

RECURSIVE scan_comment_loop_ops(_, _)
scan_comment_loop_ops(buffer, pos) ==
    LET r == read(buffer, pos) IN
    <<read_op(buffer, pos)>> \o
        (IF r.ch = EOF \/ r.ch = "\n" \/ write_char_panics(r.ch) THEN <<>>
         ELSE scan_comment_loop_ops(buffer, r.pos))

\* scan_comment: lines 491-505
scan_comment_ops(buffer, pos) ==
    LET c1 == read(buffer, pos)
        c2 == read(buffer, c1.pos)
    IN
    <<read_op(buffer, pos)>> \o
        (IF ~is_comment_start_char(c1.ch) THEN <<>>
         ELSE <<read_op(buffer, c1.pos)>> \o
              (IF ~is_comment_start_char(c2.ch) THEN <<>>
               ELSE scan_comment_loop_ops(buffer, c2.pos)))

\* Scanner::scan: lines 190-236
scan_ops(buffer, pos) ==
    LET r == read(buffer, pos)
        back == unread(r.pos)
    IN
    <<read_op(buffer, pos)>> \o
        (IF is_whitespace_char(r.ch)
         THEN <<unread_op(r.pos)>> \o run_loop_ops(buffer, back, "scan_whitespace")
         ELSE IF is_group_start_char(r.ch)
         THEN <<unread_op(r.pos)>> \o scan_group_ops(buffer, back)
         ELSE IF is_identifier_start_char(r.ch)
         THEN <<unread_op(r.pos)>> \o run_loop_ops(buffer, back, "scan_identifier")
         ELSE IF is_number_start_char(r.ch)
         THEN <<unread_op(r.pos)>> \o scan_number_ops(buffer, back)
         ELSE IF is_text_start_char(r.ch)
         THEN <<unread_op(r.pos)>> \o scan_text_ops(buffer, back)
         ELSE IF is_sign_start_char(r.ch)
         THEN <<unread_op(r.pos)>> \o run_loop_ops(buffer, back, "scan_sign")
         ELSE IF is_join_start_char(r.ch)
         THEN <<unread_op(r.pos)>> \o run_loop_ops(buffer, back, "scan_join")
         ELSE IF is_comment_start_char(r.ch)
         THEN <<unread_op(r.pos)>> \o scan_comment_ops(buffer, back)
         ELSE <<>>)

\* scan putting the character it cannot use back before it fails
scan_UnexpectedPushback(buffer, pos) ==
    LET r == read(buffer, pos) IN
    IF is_whitespace_char(r.ch) THEN scan_whitespace(buffer, unread(r.pos))
    ELSE IF is_group_start_char(r.ch) THEN scan_group(buffer, unread(r.pos))
    ELSE IF is_identifier_start_char(r.ch)
         THEN scan_identifier(buffer, unread(r.pos))
    ELSE IF is_number_start_char(r.ch) THEN scan_number(buffer, unread(r.pos))
    ELSE IF is_text_start_char(r.ch)
         THEN scan_text(buffer, unread(r.pos), FALSE)
    ELSE IF is_sign_start_char(r.ch) THEN scan_sign(buffer, unread(r.pos))
    ELSE IF is_join_start_char(r.ch) THEN scan_join(buffer, unread(r.pos))
    ELSE IF is_comment_start_char(r.ch)
         THEN scan_comment(buffer, unread(r.pos))
    ELSE IF r.ch = EOF THEN ScanOk(Token("Eof", <<EOF>>), r.pos)
    ELSE ScanErr("Unexpected", unread(r.pos))

\* Scanner::scan
scan(buffer, pos) ==
    LET r == read(buffer, pos) IN
    IF is_whitespace_char(r.ch) THEN scan_whitespace(buffer, unread(r.pos))
    ELSE IF is_group_start_char(r.ch) THEN scan_group(buffer, unread(r.pos))
    ELSE IF is_identifier_start_char(r.ch)
         THEN scan_identifier(buffer, unread(r.pos))
    ELSE IF is_number_start_char(r.ch) THEN scan_number(buffer, unread(r.pos))
    ELSE IF is_text_start_char(r.ch)
         THEN scan_text(buffer, unread(r.pos), FALSE)
    ELSE IF is_sign_start_char(r.ch) THEN scan_sign(buffer, unread(r.pos))
    ELSE IF is_join_start_char(r.ch) THEN scan_join(buffer, unread(r.pos))
    ELSE IF is_comment_start_char(r.ch)
         THEN scan_comment(buffer, unread(r.pos))
    ELSE IF r.ch = EOF THEN ScanOk(Token("Eof", <<EOF>>), r.pos)
    ELSE ScanErr("Unexpected", r.pos)


(***************************************************************************)
(* Parser values                                                           *)
(***************************************************************************)
\* struct Expr, and Expr::default()
Expr(left, op, right) == [left |-> left, op |-> op, right |-> right]

ExprDefault == Expr(TokenNone, "None", TokenNone)

\* Expr::is_zero
is_zero(expr) ==
    expr.op = "None" /\ expr.left = TokenNone /\ expr.right = TokenNone

\* enum ExprGroupItem and struct ExprGroup; an ExprGroups is the sequence of
\* its ExprGroup entries.
ItemExpr(expr) == [variant |-> "Expr", value |-> expr]

ItemExprGroups(expr_groups) == [variant |-> "ExprGroups", value |-> expr_groups]

ExprGroup(join, item) == [join |-> join, item |-> item]

\* the operand test without Token::Number
is_operand_NoNumber(t) == t.kind = "Identifier" \/ t.kind = "Text"

is_operand(t) == t.kind = "Identifier" \/ t.kind = "Text" \/ t.kind = "Number"

(***************************************************************************)
(* Bounds and the inputs parse and the scanner are run on                  *)
(***************************************************************************)
MaxFrags == 3

MaxDepth == 2

MaxScanLen == 3

MaxRunLen == 4

MaxOpLen == 3

MaxItems == 3

MaxPairLen == 3

\* The pieces a parse input is put together from: single bytes of every
\* lexical class the parser tells apart, and a few longer pieces that let a
\* short sequence of them reach nested and joined expressions.
Frags ==
    {<<"a">>, <<"=">>, <<"(">>, <<")">>, <<" ">>, <<"'">>, <<"/">>, <<"\n">>,
     <<EOF>>, <<"0x80">>,
     <<"&", "&">>, <<"|", "|">>, <<"/", "/">>, <<"a", "=", "1">>,
     <<"(", ")">>, <<"(", "a", "=", "1", ")">>,
     <<"(", " ", "a", "=", "1", ")">>}

RECURSIVE Concats(_, _)
Concats(pieces, k) ==
    IF k = 0 THEN {<<>>}
    ELSE LET shorter == Concats(pieces, k - 1) IN
         shorter \cup {p \o s : p \in pieces, s \in shorter}

\* Operands and signs of the single expressions that are wrapped in
\* parentheses: an identifier, a number, and quoted texts holding a
\* parenthesis, an escaped quote, the other quote and a high byte.
WrapOperands ==
    {<<"a">>, <<"1">>, <<"'", "(", "'">>, <<"\"", ")", "\"">>,
     <<"'", "\\", "'", "'">>, <<"\"", "'", "\"">>, <<"'", "0x80", "'">>}

WrapSigns == {<<"=">>, <<"?", "!", "~">>}

RECURSIVE Repeat(_, _)
Repeat(ch, n) == IF n = 0 THEN <<>> ELSE <<ch>> \o Repeat(ch, n - 1)

Wrapped ==
    {Repeat("(", n) \o l \o s \o r \o Repeat(")", m) :
        n \in 0..MaxDepth, m \in 0..MaxDepth,
        l \in WrapOperands, s \in WrapSigns, r \in WrapOperands}

\* Texts on which parse fails, one for each way it can fail, and the same
\* texts inside up to MaxDepth pairs of parentheses.
ErrBodies ==
    {<<"=">>, <<"a">>, <<"a", "=">>, <<"a", "=", "1", "&", "&">>,
     <<"a", "=", "1", " ", "a">>, <<"a", "=", "1", "|">>, <<"%">>,
     <<"a", ".">>, <<"1", ".">>, <<" ">>, <<"a", "=", "1", ")">>}

WrappedErr ==
    {Repeat("(", n) \o b \o Repeat(")", n) : n \in 0..MaxDepth, b \in ErrBodies}

\* Filters of up to k items: single expressions and groups, one of them
\* holding two items, with a join between each two.
ChainItems ==
    {<<"a", "=", "1">>, <<"(", "a", "=", "1", ")">>,
     <<"(", "a", "=", "1", "|", "|", "a", "=", "1", ")">>}

ChainJoins == {<<"&", "&">>, <<" ", "|", "|", " ">>}

RECURSIVE Chains(_)
Chains(k) ==
    IF k = 1 THEN ChainItems
    ELSE LET shorter == Chains(k - 1) IN
         shorter \cup {c \o j \o i : c \in shorter, j \in ChainJoins,
                                      i \in ChainItems}

\* inputs of the tests of the parser
Examples ==
    {<<"a", "=", "1", " ", "|", "|", " ", "2", "!", "=", "3">>,
     <<"(", "a", "=", "\"", "\\", "\"", "\"", ")">>,
     <<"(", "a", "=", "1", " ", "&", "&", " ", "2", "!", "=", "3", ")", " ", "|", "|", " ", "\"", "b", "\"", "=", "a">>,
     <<"1", "=", "1", "2">>,
     <<" ", " ", " ", "1", " ", " ", " ", " ", "=", " ", " ", " ", " ", "1", "2", " ", " ", " ", " ">>}

ParseInputs ==
    Concats(Frags, MaxFrags) \cup Wrapped \cup WrappedErr
        \cup Chains(MaxItems) \cup Examples

\* The bytes the scanner alone is run on: every string of them up to
\* MaxScanLen.
ScanAlphabet ==
    {"a", "1", ".", "-", "_", "@", "'", "\"", "\\", "=", "!", "&", "(", ")",
     "/", " ", "\n", "%", EOF, "0x80"}

\* every string of up to k characters of alphabet
Strings(alphabet, k) == Concats({<<c>> : c \in alphabet}, k)

\* The characters of longer runs of one class each, and of what follows a
\* quote or an opening parenthesis.
SignAlphabet == {"=", "!", "~", "<", ">", "?", " "}

JoinAlphabet == {"&", "|", "a"}

IdentifierAlphabet == {"a", "1", ".", ":", "_", "@", "#"}

NumberAlphabet == {"1", "2", ".", "-"}

QuoteAlphabet == {"'", "\"", "\\", "a", "(", ")"}

QuotedInputs ==
    {<<q>> \o w : q \in {"'", "\"", "("}, w \in Strings(QuoteAlphabet, MaxRunLen)}

\* what follows the two slashes of a comment
CommentAlphabet == {"a", " ", "\t", "\n", "/", EOF}

CommentInputs ==
    {<<"/", "/">> \o w : w \in Strings(CommentAlphabet, MaxRunLen)}

ScanInputs ==
    Strings(ScanAlphabet, MaxScanLen)
        \cup Strings(SignAlphabet, MaxRunLen)
        \cup Strings(JoinAlphabet, MaxRunLen)
        \cup Strings(IdentifierAlphabet, MaxRunLen)
        \cup Strings(NumberAlphabet, MaxRunLen)
        \cup QuotedInputs
        \cup CommentInputs

(***************************************************************************)
(* State                                                                   *)
(***************************************************************************)
VARIABLES
    input,    \* the text given to parse, or to Scanner::new
    stack,    \* the active calls of parse, the innermost last; each holds
              \* its scanner (buffer, pos) and its locals step, join, expr,
              \* result; toks is history: the kinds of the tokens it took
    outcome,  \* what the outermost parse returned, once it has
    levels,   \* history: toks of every call of parse that returned Ok
    ev,       \* history: the last loop iteration of parse (see Event)
    sc,       \* a Scanner used on its own: pos, the outcome of its last
              \* scan(), where that call started and whether an earlier
              \* scan() returned Eof
    conv,     \* an operator taken through as_str and from_str, or a string
              \* given to from_str: the stage reached and the values so far
    sc2       \* a second Scanner over the same input, as sc

vars == <<input, stack, outcome, levels, ev, sc, conv, sc2>>

\* a call whose pending join starts as Or
NewCall_JoinOr(text) ==
    [buffer |-> text, pos |-> 0, step |-> "BeforeSign", join |-> "Or",
     expr |-> ExprDefault, result |-> <<>>, toks |-> <<>>]

\* parse(text) up to its loop: lines 109-114
NewCall(text) ==
    [buffer |-> text, pos |-> 0, step |-> "BeforeSign", join |-> "And",
     expr |-> ExprDefault, result |-> <<>>, toks |-> <<>>]

Running == [kind |-> "running", err |-> "", value |-> <<>>]

RetOk(result) == [kind |-> "ok", err |-> "", value |-> result]

RetErr(err) == [kind |-> "err", err |-> err, value |-> <<>>]

Panicked == [kind |-> "panic", err |-> "", value |-> <<>>]

\* What ev keeps of a loop iteration: which way it went, the token scanned
\* (Token::None when scan() gave none), the call's locals before it, the
\* depth of the call and, for a nested call, its caller's locals.
Event(act, tok, frame, depth) ==
    [act |-> act, tok |-> tok, frame |-> frame, step |-> frame.step,
     depth |-> depth,
     caller |-> IF depth > 1 THEN stack[depth - 1] ELSE frame]

NoEvent == Event("none", TokenNone, NewCall(<<>>), 0)

NoScan ==
    [st |-> "none", tok |-> TokenNone, err |-> "", pos |-> 0, missing |-> 0]

ScInit ==
    [pos |-> 0, start |-> 0, last |-> NoScan, eof_seen |-> FALSE, calls |-> 0]

\* an operator of either enum, and the conversions before any is applied
Op(enum, value) == [enum |-> enum, value |-> value]

NoOp == Op("", "")

Conv(stage, op, str, back) ==
    [stage |-> stage, op |-> op, str |-> str, back |-> back]

NoConv == Conv("none", NoOp, <<>>, None)

Init ==
    /\ input \in ParseInputs
    /\ stack = <<NewCall(input)>>
    /\ outcome = Running
    /\ levels = {}
    /\ ev = NoEvent
    /\ sc = ScInit
    /\ sc2 = ScInit
    /\ conv = NoConv

\* the innermost call and the token its scanner yields next
Depth == Len(stack)

Top == stack[Depth]

Active == outcome.kind = "running" /\ Depth > 0

\* scanner.scan() of the innermost call (line 117)
Next_scan == IF Active THEN scan(Top.buffer, Top.pos) ELSE NoScan

SetTop(frame) == [stack EXCEPT ![Depth] = frame]


(***************************************************************************)
(* parse: one action per way an iteration of its token loop can go.  An    *)
(* error return (`?` and `return Err`) leaves every enclosing call too, so *)
(* it ends the outermost parse; a panic unwinds the thread.                *)
(***************************************************************************)
\* the scanner's error reported as Invalid whatever its kind
ParseScanErr_AllInvalid ==
    \E t \in {Next_scan} :
        /\ Active
        /\ t.st = "err"
        /\ outcome' = RetErr("Invalid")
        /\ stack' = <<>>
        /\ ev' = Event("scan_err", TokenNone, Top, Depth)
        /\ UNCHANGED <<input, levels, sc, conv, sc2>>

\* scanner.scan()? fails: line 117
ParseScanErr ==
    \E t \in {Next_scan} :
        /\ Active
        /\ t.st = "err"
        /\ outcome' = RetErr(t.err)
        /\ stack' = <<>>
        /\ ev' = Event("scan_err", TokenNone, Top, Depth)
        /\ UNCHANGED <<input, levels, sc, conv, sc2>>

\* scanner.scan() panics in Buffer::write_char
ParseScanPanic ==
    \E t \in {Next_scan} :
        /\ Active
        /\ t.st = "panic"
        /\ outcome' = Panicked
        /\ stack' = <<>>
        /\ ev' = Event("scan_panic", TokenNone, Top, Depth)
        /\ UNCHANGED <<input, levels, sc, conv, sc2>>

\* AfterLoop returning an empty ExprGroups where nothing was parsed
AfterLoop_EmptyOk(frame) ==
    IF frame.step # "Join"
    THEN IF Len(frame.result) = 0 /\ is_zero(frame.expr)
         THEN RetOk(<<>>)
         ELSE RetErr("Incomplete")
    ELSE RetOk(frame.result)

\* AfterLoop without the is_zero test
AfterLoop_NoZeroTest(frame) ==
    IF frame.step # "Join"
    THEN IF Len(frame.result) = 0
         THEN RetErr("Empty")
         ELSE RetErr("Incomplete")
    ELSE RetOk(frame.result)

\* the check after the loop: lines 229-239
AfterLoop(frame) ==
    IF frame.step # "Join"
    THEN IF Len(frame.result) = 0 /\ is_zero(frame.expr)
         THEN RetErr("Empty")
         ELSE RetErr("Incomplete")
    ELSE RetOk(frame.result)

\* the Group branch splicing the nested items into the caller's sequence
GroupAppend_Flatten(frame, group_result) ==
    [frame EXCEPT !.result = @ \o group_result, !.step = "Join"]

\* the Group branch going to Join without appending anything
GroupAppend_Skip(frame, group_result) == [frame EXCEPT !.step = "Join"]

\* the Group branch appending the nested result and leaving step as it is
GroupAppend_KeepStep(frame, group_result) ==
    [frame EXCEPT
        !.result = Append(@, ExprGroup(frame.join,
                                       ItemExprGroups(group_result)))]

\* the Group branch putting the nested result in front of the entries the
\* call already has
GroupAppend_Prepend(frame, group_result) ==
    [frame EXCEPT
        !.result = <<ExprGroup(frame.join, ItemExprGroups(group_result))>> \o @,
        !.step = "Join"]

\* the caller's Group branch once parse(t.literal())? has returned
\* group_result: lines 130-139
GroupAppend(frame, group_result) ==
    [frame EXCEPT
        !.result = IF Len(group_result) > 0
                   THEN Append(@, ExprGroup(frame.join,
                                            ItemExprGroups(group_result)))
                   ELSE @,
        !.step = "Join"]

\* Token::Eof: the loop breaks (lines 119-121) and the call returns; the
\* return of a nested call goes on in its caller's Group branch.
ParseEof ==
    \E t \in {Next_scan} :
        /\ Active
        /\ t.st = "ok"
        /\ t.tok.kind = "Eof"
        /\ LET ret == AfterLoop(Top) IN
           IF ret.kind = "err"
           THEN /\ outcome' = ret
                /\ stack' = <<>>
                /\ levels' = levels
                /\ ev' = Event("eof_err", t.tok, Top, Depth)
           ELSE /\ levels' = levels \cup {Top.toks}
                /\ ev' = Event("eof_ok", t.tok, Top, Depth)
                /\ IF Depth = 1
                   THEN /\ outcome' = ret
                        /\ stack' = <<>>
                   ELSE /\ outcome' = outcome
                        /\ stack' = [SubSeq(stack, 1, Depth - 1) EXCEPT
                                        ![Depth - 1] =
                                            GroupAppend(stack[Depth - 1],
                                                        ret.value)]
        /\ UNCHANGED <<input, sc, conv, sc2>>

\* whitespace and comments skipped without the scanner moving on
ParseSkip_NoAdvance ==
    \E t \in {Next_scan} :
        /\ Active
        /\ t.st = "ok"
        /\ t.tok.kind \in {"Ws", "Comment"}
        /\ stack' = stack
        /\ ev' = Event("skip", t.tok, Top, Depth)
        /\ UNCHANGED <<input, outcome, levels, sc, conv, sc2>>

\* a parser for which a skipped token ends the pending join
ParseSkip_ResetJoin ==
    \E t \in {Next_scan} :
        /\ Active
        /\ t.st = "ok"
        /\ t.tok.kind \in {"Ws", "Comment"}
        /\ stack' = SetTop([Top EXCEPT !.pos = t.pos, !.join = "And"])
        /\ ev' = Event("skip", t.tok, Top, Depth)
        /\ UNCHANGED <<input, outcome, levels, sc, conv, sc2>>

\* Token::Ws and Token::Comment: continue (lines 123-125)
ParseSkip ==
    \E t \in {Next_scan} :
        /\ Active
        /\ t.st = "ok"
        /\ t.tok.kind \in {"Ws", "Comment"}
        /\ stack' = SetTop([Top EXCEPT !.pos = t.pos])
        /\ ev' = Event("skip", t.tok, Top, Depth)
        /\ UNCHANGED <<input, outcome, levels, sc, conv, sc2>>

\* Token::Group: parse(t.literal()) is called (lines 127-128)
ParseGroup ==
    \E t \in {Next_scan} :
        /\ Active
        /\ t.st = "ok"
        /\ t.tok.kind = "Group"
        /\ stack' = Append(SetTop([Top EXCEPT !.pos = t.pos,
                                              !.toks = Append(@, t.tok)]),
                           NewCall(t.tok.literal))
        /\ ev' = Event("group", t.tok, Top, Depth)
        /\ UNCHANGED <<input, outcome, levels, sc, conv, sc2>>

\* a token t of any other kind reaches `match step`
Matched(t, step) ==
    /\ Active
    /\ t.st = "ok"
    /\ t.tok.kind \notin {"Eof", "Ws", "Comment", "Group"}
    /\ Top.step = step

\* an Unexpected error that ends the innermost call only: its caller takes
\* the group for an empty one and goes on
Unexpected_LeaveOne(t) ==
    /\ ev' = Event("unexpected", t.tok, Top, Depth)
    /\ IF Depth = 1
       THEN outcome' = RetErr("Unexpected") /\ stack' = <<>>
       ELSE /\ outcome' = outcome
            /\ stack' = [SubSeq(stack, 1, Depth - 1) EXCEPT
                            ![Depth - 1] = GroupAppend(stack[Depth - 1], <<>>)]

\* return Err(Error::Unexpected(..))
Unexpected(t) ==
    /\ outcome' = RetErr("Unexpected")
    /\ stack' = <<>>
    /\ ev' = Event("unexpected", t.tok, Top, Depth)

\* the token is taken and the loop goes on with the call's locals as in frame
Accept(t, frame) ==
    /\ outcome' = outcome
    /\ stack' = SetTop([frame EXCEPT !.pos = t.pos,
                                     !.toks = Append(@, t.tok)])
    /\ ev' = Event("accept", t.tok, Top, Depth)

\* the left operand set in the pending Expr, its op and right kept
LeftExpr_KeepRest(expr, t) == [expr EXCEPT !.left = t]

\* Expr { left: t, ..Default::default() }: lines 155-158
LeftExpr(expr, t) == Expr(t, ExprDefault.op, ExprDefault.right)

\* Step::BeforeSign: lines 143-161
StepBeforeSign ==
    \E t \in {Next_scan} :
        /\ Matched(t, "BeforeSign")
        /\ IF ~is_operand(t.tok)
           THEN Unexpected(t)
           ELSE Accept(t, [Top EXCEPT
                              !.expr = LeftExpr(Top.expr, t.tok),
                              !.step = "Sign"])
        /\ UNCHANGED <<input, levels, sc, conv, sc2>>

\* Step::Sign: lines 162-183
StepSign ==
    \E t \in {Next_scan} :
        /\ Matched(t, "Sign")
        /\ IF t.tok.kind # "Sign"
           THEN Unexpected(t)
           ELSE LET op == SignOp_from_str(t.tok.literal) IN
                IF op = None
                THEN Unexpected(t)
                ELSE Accept(t, [Top EXCEPT !.expr.op = op[1],
                                           !.step = "AfterSign"])
        /\ UNCHANGED <<input, levels, sc, conv, sc2>>

\* Step::AfterSign: lines 184-203
StepAfterSign ==
    \E t \in {Next_scan} :
        /\ Matched(t, "AfterSign")
        /\ IF ~is_operand(t.tok)
           THEN Unexpected(t)
           ELSE LET expr == [Top.expr EXCEPT !.right = t.tok] IN
                Accept(t, [Top EXCEPT
                              !.expr = expr,
                              !.result = Append(@, ExprGroup(Top.join,
                                                             ItemExpr(expr))),
                              !.step = "Join"])
        /\ UNCHANGED <<input, levels, sc, conv, sc2>>

\* Step::Join: lines 204-225
StepJoin ==
    \E t \in {Next_scan} :
        /\ Matched(t, "Join")
        /\ IF t.tok.kind # "Join"
           THEN Unexpected(t)
           ELSE LET join == JoinOp_from_str(t.tok.literal) IN
                IF join = None
                THEN Unexpected(t)
                ELSE Accept(t, [Top EXCEPT !.join = join[1],
                                           !.step = "BeforeSign"])
        /\ UNCHANGED <<input, levels, sc, conv, sc2>>

Next ==
    \/ ParseScanErr
    \/ ParseScanPanic
    \/ ParseEof
    \/ ParseSkip
    \/ ParseGroup
    \/ StepBeforeSign
    \/ StepSign
    \/ StepAfterSign
    \/ StepJoin

Spec == Init /\ [][Next]_vars

(***************************************************************************)
(* parse as a function of its text: the same loop run to its return, for   *)
(* the properties that compare the results of two calls.                   *)
(***************************************************************************)
\* `match step` (lines 142-226) for a token of any kind but Eof, Ws, Comment
\* and Group: the call's locals after the arm, none after return Err
match_step(frame, t) ==
    CASE frame.step = "BeforeSign" ->
            IF ~is_operand(t) THEN None
            ELSE Some([frame EXCEPT !.expr = LeftExpr(frame.expr, t),
                                    !.step = "Sign"])
      [] frame.step = "Sign" ->
            IF t.kind # "Sign" \/ SignOp_from_str(t.literal) = None THEN None
            ELSE Some([frame EXCEPT !.expr.op = SignOp_from_str(t.literal)[1],
                                    !.step = "AfterSign"])
      [] frame.step = "AfterSign" ->
            IF ~is_operand(t) THEN None
            ELSE LET expr == [frame.expr EXCEPT !.right = t] IN
                 Some([frame EXCEPT
                          !.expr = expr,
                          !.result = Append(@, ExprGroup(frame.join,
                                                         ItemExpr(expr))),
                          !.step = "Join"])
      [] frame.step = "Join" ->
            IF t.kind # "Join" \/ JoinOp_from_str(t.literal) = None THEN None
            ELSE Some([frame EXCEPT !.join = JoinOp_from_str(t.literal)[1],
                                    !.step = "BeforeSign"])

RECURSIVE parse(_)
RECURSIVE parse_loop(_)
\* the loop of lines 116-227 from the locals in frame on, and the check
\* after it
parse_loop(frame) ==
    LET t == scan(frame.buffer, frame.pos) IN
    IF t.st = "panic" THEN Panicked
    ELSE IF t.st = "err" THEN RetErr(t.err)
    ELSE IF t.tok.kind = "Eof" THEN AfterLoop(frame)
    ELSE IF t.tok.kind \in {"Ws", "Comment"}
    THEN parse_loop([frame EXCEPT !.pos = t.pos])
    ELSE IF t.tok.kind = "Group"
    THEN LET group == parse(t.tok.literal) IN
         IF group.kind # "ok" THEN group
         ELSE parse_loop(GroupAppend([frame EXCEPT !.pos = t.pos,
                                                   !.toks = Append(@, t.tok)],
                                     group.value))
    ELSE LET after == match_step(frame, t.tok) IN
         IF after = None THEN RetErr("Unexpected")
         ELSE parse_loop([after[1] EXCEPT !.pos = t.pos,
                                          !.toks = Append(@, t.tok)])

\* pub fn parse(text: &str) -> Result<ExprGroups, Error>: lines 108-240
parse(text) == parse_loop(NewCall(text))

(***************************************************************************)
(* Display: what to_string() gives for the values of the parser, as the    *)
(* sequence of the characters written.                                     *)
(***************************************************************************)
\* Token::kind: scanner.rs 138-151
Token_kind(t) ==
    CASE t.kind = "None" -> <<>>
      [] t.kind = "Eof" -> <<"e", "o", "f">>
      [] t.kind = "Ws" -> <<"w", "h", "i", "t", "e", "s", "p", "a", "c", "e">>
      [] t.kind = "Join" -> <<"j", "o", "i", "n">>
      [] t.kind = "Sign" -> <<"s", "i", "g", "n">>
      [] t.kind = "Identifier" -> <<"i", "d", "e", "n", "t", "i", "f", "i", "e", "r">>
      [] t.kind = "Number" -> <<"n", "u", "m", "b", "e", "r">>
      [] t.kind = "Text" -> <<"t", "e", "x", "t">>
      [] t.kind = "Group" -> <<"g", "r", "o", "u", "p">>
      [] t.kind = "Comment" -> <<"c", "o", "m", "m", "e", "n", "t">>

\* Display for Token: write!(f, "{{{} {}}}", self.kind(), self.literal())
Token_fmt(t) == <<"{">> \o Token_kind(t) \o <<" ">> \o t.literal \o <<"}">>

\* Display for JoinOp and for SignOp: write!(f, "{}", self.as_str())
JoinOp_fmt(op) == JoinOp_as_str(op)

SignOp_fmt(op) == SignOp_as_str(op)

\* Display for Expr: write!(f, "{{{} {} {}}}", self.left, self.op, self.right)
Expr_fmt(expr) ==
    <<"{">> \o Token_fmt(expr.left) \o <<" ">> \o SignOp_fmt(expr.op)
            \o <<" ">> \o Token_fmt(expr.right) \o <<"}">>

RECURSIVE ExprGroups_fmt(_)
RECURSIVE ExprGroups_fmt_loop(_, _)
\* Display for ExprGroupItem: parser.rs 48-55
ExprGroupItem_fmt(item) ==
    IF item.variant = "Expr" THEN Expr_fmt(item.value)
    ELSE ExprGroups_fmt(item.value)

\* the entries from the i-th on without a space between them
ExprGroups_fmt_loop_NoSpace(expr_groups, i) ==
    IF i > Len(expr_groups) THEN <<>>
    ELSE <<"{">> \o JoinOp_fmt(expr_groups[i].join) \o <<" ">>
                \o ExprGroupItem_fmt(expr_groups[i].item) \o <<"}">>
                \o ExprGroups_fmt_loop(expr_groups, i + 1)

\* the loop of ExprGroups::fmt from the i-th entry on: parser.rs 84-89
ExprGroups_fmt_loop(expr_groups, i) ==
    IF i > Len(expr_groups) THEN <<>>
    ELSE (IF i > 1 THEN <<" ">> ELSE <<>>)
             \o <<"{">> \o JoinOp_fmt(expr_groups[i].join) \o <<" ">>
             \o ExprGroupItem_fmt(expr_groups[i].item) \o <<"}">>
             \o ExprGroups_fmt_loop(expr_groups, i + 1)

\* Display for ExprGroups: parser.rs 81-93
ExprGroups_fmt(expr_groups) ==
    <<"[">> \o ExprGroups_fmt_loop(expr_groups, 1) \o <<"]">>

\* Display for ExprGroup: parser.rs 37-41
ExprGroup_fmt(expr_group) ==
    <<"{">> \o JoinOp_fmt(expr_group.join) \o <<" ">>
            \o ExprGroupItem_fmt(expr_group.item) \o <<"}">>

\* v.to_string() of the value parse returned
to_string ==
    /\ outcome.kind = "ok"
    /\ conv.stage = "none"
    /\ conv' = Conv("printed", NoOp, ExprGroups_fmt(outcome.value), None)
    /\ UNCHANGED <<input, stack, outcome, levels, ev, sc, sc2>>

PrintNext == Next \/ to_string

PrintSpec == Init /\ [][PrintNext]_vars

(***************************************************************************)
(* A Scanner used on its own: scan() is called again and again, also after *)
(* an error and after Eof, as the scanner's tests do.                      *)
(***************************************************************************)
ScanInit ==
    /\ input \in ScanInputs
    /\ stack = <<>>
    /\ outcome = Running
    /\ levels = {}
    /\ ev = NoEvent
    /\ sc = ScInit
    /\ sc2 = ScInit
    /\ conv = NoConv

\* Scanner::scan on the scanner sc
ScanCall ==
    /\ sc.last.st # "panic"
    /\ \E r \in {scan(input, sc.pos)} :
        sc' = [pos |-> r.pos,
               start |-> sc.pos,
               last |-> r,
               eof_seen |-> sc.eof_seen \/ sc.last.tok.kind = "Eof",
               calls |-> IF sc.calls < Len(input) + 2 THEN sc.calls + 1
                         ELSE sc.calls]
    /\ UNCHANGED <<input, stack, outcome, levels, ev, conv, sc2>>

ScanNext == ScanCall

ScanSpec == ScanInit /\ [][ScanNext]_vars

(***************************************************************************)
(* Two scanners made by Scanner::new over the same bytes, each called on   *)
(* its own: a Scanner holds its buffer and its pos and nothing else.       *)
(***************************************************************************)
PairAlphabet ==
    {"a", "1", "=", "&", "(", ")", "'", " ", "/", "\n", EOF, "0x80"}

PairInputs == Strings(PairAlphabet, MaxPairLen)

PairInit ==
    /\ input \in PairInputs
    /\ stack = <<>>
    /\ outcome = Running
    /\ levels = {}
    /\ ev = NoEvent
    /\ sc = ScInit
    /\ sc2 = ScInit
    /\ conv = NoConv

\* a scanner that remembers the parity of its calls and pushes one
\* character back after every second one
ScanCall2_Stateful ==
    /\ sc2.last.st # "panic"
    /\ \E r \in {scan(input, sc2.pos)} :
        sc2' = [pos |-> IF sc2.calls % 2 = 1 THEN unread(r.pos) ELSE r.pos,
                start |-> sc2.pos,
                last |-> r,
                eof_seen |-> sc2.eof_seen \/ sc2.last.tok.kind = "Eof",
                calls |-> IF sc2.calls < Len(input) + 2 THEN sc2.calls + 1
                          ELSE sc2.calls]
    /\ UNCHANGED <<input, stack, outcome, levels, ev, sc, conv>>

\* Scanner::scan on the scanner sc2
ScanCall2 ==
    /\ sc2.last.st # "panic"
    /\ \E r \in {scan(input, sc2.pos)} :
        sc2' = [pos |-> r.pos,
                start |-> sc2.pos,
                last |-> r,
                eof_seen |-> sc2.eof_seen \/ sc2.last.tok.kind = "Eof",
                calls |-> IF sc2.calls < Len(input) + 2 THEN sc2.calls + 1
                          ELSE sc2.calls]
    /\ UNCHANGED <<input, stack, outcome, levels, ev, sc, conv>>

PairNext == ScanCall \/ ScanCall2

PairSpec == PairInit /\ [][PairNext]_vars


(***************************************************************************)
(* The operator enums on their own: as_str and from_str are applied to     *)
(* every operator, and from_str to every short string of operator          *)
(* characters.                                                             *)
(***************************************************************************)
SignOps ==
    {"Eq", "Neq", "Like", "Nlike", "Lt", "Lte", "Gt", "Gte",
     "AnyEq", "AnyNeq", "AnyLike", "AnyNlike", "AnyLt", "AnyLte", "AnyGt",
     "AnyGte"}

JoinOps == {"And", "Or"}

Ops ==
    {Op("SignOp", v) : v \in SignOps \cup {"None"}}
        \cup {Op("JoinOp", v) : v \in JoinOps}

OpAlphabet == {"=", "!", "~", "<", ">", "?", "&", "|"}

OpStrings == Strings(OpAlphabet, MaxOpLen)

as_str(op) ==
    IF op.enum = "SignOp" THEN SignOp_as_str(op.value)
    ELSE JoinOp_as_str(op.value)

from_str(enum, str) ==
    IF enum = "SignOp" THEN SignOp_from_str(str) ELSE JoinOp_from_str(str)

OpInit ==
    /\ \/ input = <<>> /\ conv \in {Conv("op", op, <<>>, None) : op \in Ops}
       \/ /\ input \in OpStrings
          /\ conv \in {Conv("str", Op(enum, ""), input, None) :
                           enum \in {"SignOp", "JoinOp"}}
    /\ stack = <<>>
    /\ outcome = Running
    /\ levels = {}
    /\ ev = NoEvent
    /\ sc = ScInit
    /\ sc2 = ScInit

\* op.as_str()
OpAsStr ==
    /\ conv.stage = "op"
    /\ conv' = [conv EXCEPT !.stage = "printed", !.str = as_str(conv.op)]
    /\ UNCHANGED <<input, stack, outcome, levels, ev, sc, sc2>>

\* from_str of the string as_str gave
OpFromStr ==
    /\ conv.stage = "printed"
    /\ conv' = [conv EXCEPT !.stage = "reparsed",
                            !.back = from_str(conv.op.enum, conv.str)]
    /\ UNCHANGED <<input, stack, outcome, levels, ev, sc, sc2>>

\* from_str of a given string
OpParse ==
    /\ conv.stage = "str"
    /\ conv' = [conv EXCEPT !.stage = "parsed",
                            !.back = from_str(conv.op.enum, conv.str)]
    /\ UNCHANGED <<input, stack, outcome, levels, ev, sc, sc2>>

OpNext == OpAsStr \/ OpFromStr \/ OpParse

OpSpec == OpInit /\ [][OpNext]_vars


(***************************************************************************)
(* Claims                                                                  *)
(***************************************************************************)
Finished == outcome.kind # "running"

\* The length of the item a token sequence starts with: 1 for a Group
\* token, 3 for operand sign operand, 0 when it starts with neither.
ItemLen(toks) ==
    IF Len(toks) >= 1 /\ toks[1].kind = "Group" THEN 1
    ELSE IF /\ Len(toks) >= 3
            /\ is_operand(toks[1])
            /\ toks[2].kind = "Sign"
            /\ is_operand(toks[3])
         THEN 3
    ELSE 0

\* filter := item (join item)*
RECURSIVE IsFilter(_)
IsFilter(toks) ==
    LET n == ItemLen(toks) IN
    /\ n > 0
    /\ \/ Len(toks) = n
       \/ /\ Len(toks) > n
          /\ toks[n + 1].kind = "Join"
          /\ IsFilter(SubSeq(toks, n + 2, Len(toks)))

\* C1: whenever parse succeeds, the tokens other than whitespace and
\* comments that each call of parse took, at every nesting level, form
\* item (join item)*, an item being one Group token or operand sign operand.
C1_TokenGrammar ==
    outcome.kind = "ok" => \A toks \in levels : IsFilter(toks)

ErrorKinds == {"Buffer", "Unexpected", "Invalid", "Empty", "Incomplete"}

\* C2: on every input parse returns an ExprGroups or an Error of one of the
\* five kinds; it never panics.
C2_NoPanic ==
    \/ outcome.kind \in {"running", "ok"}
    \/ outcome.kind = "err" /\ outcome.err \in ErrorKinds

\* The last iteration was the one that met Eof.
AtEof == ev.act \in {"eof_ok", "eof_err"}

\* The call that met Eof returned Ok(result): to the caller of the outermost
\* parse, or to the enclosing call, which appended it as a nested item.
ReturnedOk(result) ==
    /\ ev.act = "eof_ok"
    /\ IF ev.depth = 1
       THEN outcome = RetOk(result)
       ELSE /\ outcome.kind = "running"
            /\ Depth = ev.depth - 1
            /\ Len(result) > 0 =>
                   /\ Top.result # <<>>
                   /\ Top.result[Len(Top.result)].item = ItemExprGroups(result)

\* C3: when the token loop ends on Eof, a call in state Join returns the
\* accumulated ExprGroups; otherwise it raises Empty exactly when its output
\* is empty and its pending Expr is zero, and Incomplete in every other
\* case: a lone left operand, an operand and a sign, or a dangling join
\* after at least one item.
C3_EofOutcome ==
    AtEof =>
        LET f == ev.frame IN
        IF f.step = "Join" THEN ReturnedOk(f.result)
        ELSE IF Len(f.result) = 0 /\ is_zero(f.expr)
             THEN outcome = RetErr("Empty")
        ELSE /\ outcome = RetErr("Incomplete")
             /\ \/ /\ f.step = "Sign"
                   /\ f.expr.left # TokenNone
                   /\ f.expr.op = "None"
                \/ /\ f.step = "AfterSign"
                   /\ f.expr.left # TokenNone
                   /\ f.expr.op # "None"
                \/ /\ f.step = "BeforeSign"
                   /\ Len(f.result) >= 1

\* C3 witness: Eof after a dangling join that follows one item
C3_Witness ==
    /\ AtEof
    /\ ev.frame.step = "BeforeSign"
    /\ Len(ev.frame.result) = 1
    /\ outcome = RetErr("Incomplete")

\* The tokens scan() yields on buffer from pos on, up to Eof; a scan that
\* fails or panics ends the sequence with Token::None.
RECURSIVE Tokens(_, _)
Tokens(buffer, pos) ==
    LET r == scan(buffer, pos) IN
    IF r.st # "ok" THEN <<TokenNone>>
    ELSE IF r.tok.kind = "Eof" THEN <<>>
    ELSE <<r.tok>> \o Tokens(buffer, r.pos)

IsSkipped(t) == t.kind \in {"Ws", "Comment"}

IsSignificant(t) == ~IsSkipped(t)

Significant(buffer) == SelectSeq(Tokens(buffer, 0), IsSignificant)

\* buffer scans to whitespace and comment tokens only (or to none)
OnlySkipTokens(buffer) == Significant(buffer) = <<>>

\* C4: a text whose tokens are all whitespace or comments, or that is
\* zero-length, makes the call of parse that runs on it raise Empty, and so
\* the whole parse: the text given to parse as well as the inner text of a
\* group at any position and depth.  Such a call is the innermost one, takes
\* no token and fails in no other way.
C4_EmptyText ==
    /\ \A i \in 1..Depth :
           OnlySkipTokens(stack[i].buffer) =>
               /\ i = Depth
               /\ stack[i].toks = <<>>
               /\ stack[i].step = "BeforeSign"
               /\ stack[i].result = <<>>
               /\ is_zero(stack[i].expr)
    /\ ev.act # "none" /\ OnlySkipTokens(ev.frame.buffer) =>
           \/ ev.act = "skip"
           \/ ev.act = "eof_err" /\ outcome = RetErr("Empty")

\* C4 witness: a group two levels down holds only whitespace or nothing and
\* the whole parse has raised Empty
C4_Witness ==
    /\ ev.act = "eof_err"
    /\ ev.depth = 3
    /\ OnlySkipTokens(ev.frame.buffer)
    /\ outcome = RetErr("Empty")

RECURSIVE LeadOpens(_)
LeadOpens(s) ==
    IF s # <<>> /\ Head(s) = "(" THEN 1 + LeadOpens(Tail(s)) ELSE 0

RECURSIVE TrailCloses(_)
TrailCloses(s) ==
    IF s # <<>> /\ s[Len(s)] = ")"
    THEN 1 + TrailCloses(SubSeq(s, 1, Len(s) - 1))
    ELSE 0

\* input without its first n and last m bytes
Inner(n, m) == SubSeq(input, n + 1, Len(input) - m)

\* e is operand sign operand, with whitespace at most between and around
\* them, and holds no NUL byte
PlainExpr(e) ==
    LET all == Tokens(e, 0)
        s == SelectSeq(all, IsSignificant)
    IN  /\ \A i \in 1..Len(e) : e[i] # EOF
        /\ \A i \in 1..Len(all) : all[i].kind # "Comment"
        /\ Len(s) = 3
        /\ is_operand(s[1])
        /\ s[2].kind = "Sign"
        /\ is_operand(s[3])

\* the Expr of a PlainExpr e, as the only item of a sequence
ExprOf(e) ==
    LET s == Significant(e) IN
    <<ExprGroup("And",
                ItemExpr(Expr(s[1], SignOp_from_str(s[2].literal)[1], s[3])))>>

RECURSIVE Nested(_, _)
Nested(n, groups) ==
    IF n = 0 THEN groups
    ELSE <<ExprGroup("And", ItemExprGroups(Nested(n - 1, groups)))>>

\* input is n opening parentheses, a PlainExpr and n closing parentheses
Balanced ==
    LET n == LeadOpens(input) IN
    /\ TrailCloses(input) >= n
    /\ Len(input) >= 2 * n
    /\ PlainExpr(Inner(n, n))

\* C5: parse of n opening parentheses, one expression e and n closing
\* parentheses returns Ok, nested n levels deep: n one-item sequences with
\* join And, one inside the other, the innermost holding the Expr of e.
C5_NestedDepth ==
    Finished /\ Balanced =>
        LET n == LeadOpens(input) IN
        outcome = RetOk(Nested(n, ExprOf(Inner(n, n))))

\* C5 witness: MaxDepth levels around an expression whose left operand is
\* a quoted text
C5_Witness ==
    /\ Finished
    /\ Balanced
    /\ LeadOpens(input) = MaxDepth
    /\ input[MaxDepth + 1] \in {"'", "\""}
    /\ outcome.kind = "ok"

\* input is n opening parentheses, a PlainExpr and m closing parentheses
Wrapping(n, m) ==
    /\ n = LeadOpens(input)
    /\ m = TrailCloses(input)
    /\ Len(input) >= n + m
    /\ PlainExpr(Inner(n, m))

C7_EofSticky ==
    sc.eof_seen => sc.last.st = "ok" /\ sc.last.tok.kind = "Eof"

SignStrings ==
    {<<"=">>, <<"!", "=">>, <<"~">>, <<"!", "~">>,
     <<"<">>, <<"<", "=">>, <<">">>, <<">", "=">>,
     <<"?", "=">>, <<"?", "!", "=">>, <<"?", "~">>, <<"?", "!", "~">>,
     <<"?", "<">>, <<"?", "<", "=">>, <<"?", ">">>, <<"?", ">", "=">>}

JoinStrings == {<<"&", "&">>, <<"|", "|">>}

\* an optional '-', then digits with at most one '.', at least one digit,
\* no '.' at the end
NumberShape(lit) ==
    /\ lit # <<>>
    /\ LET body == IF lit[1] = "-" THEN Tail(lit) ELSE lit IN
       /\ body # <<>>
       /\ \A i \in 1..Len(body) : body[i] \in Digits \cup {"."}
       /\ Cardinality({i \in 1..Len(body) : body[i] = "."}) <= 1
       /\ \E i \in 1..Len(body) : body[i] \in Digits
       /\ body[Len(body)] # "."

\* word characters, '.' and ':', with '@' or '#' in the first place only
\* and a word character in the last
IdentifierShape(lit) ==
    /\ lit # <<>>
    /\ lit[1] \in WordChars \cup {".", ":", "@", "#"}
    /\ \A i \in 2..Len(lit) : lit[i] \in WordChars \cup {".", ":"}
    /\ lit[Len(lit)] \in WordChars

\* one line, with no whitespace at either end
CommentShape(lit) ==
    /\ \A i \in 1..Len(lit) : lit[i] # "\n"
    /\ lit # <<>> => ~is_whitespace_char(lit[1])
                     /\ ~is_whitespace_char(lit[Len(lit)])

\* the grammar of a token's class; a Text and a Group hold any characters
ClassGrammar(t) ==
    CASE t.kind = "Ws" ->
             /\ t.literal # <<>>
             /\ \A i \in 1..Len(t.literal) : is_whitespace_char(t.literal[i])
      [] t.kind = "Join" -> t.literal \in JoinStrings
      [] t.kind = "Sign" -> t.literal \in SignStrings
      [] t.kind = "Identifier" -> IdentifierShape(t.literal)
      [] t.kind = "Number" -> NumberShape(t.literal)
      [] t.kind = "Comment" -> CommentShape(t.literal)
      [] t.kind \in {"Text", "Group"} -> TRUE
      [] OTHER -> FALSE

\* scan() has just returned a token other than Eof
ScannedToken == sc.last.st = "ok" /\ sc.last.tok.kind # "Eof"

\* C8 as stated: every token other than Eof that scan() returns has a
\* non-empty literal that satisfies the grammar of its class.
C8_LiteralNonEmpty ==
    ScannedToken =>
        sc.last.tok.literal # <<>> /\ ClassGrammar(sc.last.tok)

\* C8 amended: every token other than Eof that scan() returns has a literal
\* that satisfies the grammar of its class; the literal of a Whitespace,
\* Join, Sign, Identifier or Number token is non-empty, while that of a
\* Text (`''`), a Group (`()`) or a Comment (`//`) may be empty.
C8_LiteralGrammar ==
    ScannedToken =>
        /\ ClassGrammar(sc.last.tok)
        /\ sc.last.tok.kind \in {"Ws", "Join", "Sign", "Identifier", "Number"}
               => sc.last.tok.literal # <<>>

\* C8 witness: scan() has returned a Text token with an empty literal
C8_Witness ==
    /\ ScannedToken
    /\ sc.last.tok.kind = "Text"
    /\ sc.last.tok.literal = <<>>

\* the kinds of token a state of the parser accepts
AcceptedKinds(step) ==
    CASE step = "BeforeSign" -> {"Identifier", "Text", "Number"}
      [] step = "Sign" -> {"Sign"}
      [] step = "AfterSign" -> {"Identifier", "Text", "Number"}
      [] step = "Join" -> {"Join"}

\* C9: a token that is not whitespace, comment, Group or Eof is taken when
\* its kind is the one the state accepts (Identifier, Text, Number in
\* BeforeSign and AfterSign, Sign in Sign, Join in Join); any other makes
\* parse fail with Unexpected and return no result.
C9_UnexpectedKinds ==
    /\ ev.tok.kind \in {"Join", "Sign", "Identifier", "Number", "Text"} =>
           ev.act \in {"accept", "unexpected"}
    /\ ev.act \in {"accept", "unexpected"} =>
           /\ ev.act = "accept" <=> ev.tok.kind \in AcceptedKinds(ev.step)
           /\ ev.act = "unexpected" =>
                  outcome = RetErr("Unexpected") /\ stack = <<>>

\* C9 witness: a second operand where a join is due
C9_Witness ==
    /\ ev.act = "unexpected"
    /\ ev.step = "Join"
    /\ ev.tok.kind = "Identifier"
    /\ outcome = RetErr("Unexpected")

StepAfter(step) ==
    CASE step = "BeforeSign" -> "Sign"
      [] step = "Sign" -> "AfterSign"
      [] step = "AfterSign" -> "Join"
      [] step = "Join" -> "BeforeSign"

\* the Expr of the last three tokens a call took
LastCycleExpr(toks) ==
    LET n == Len(toks) IN
    Expr(toks[n - 2], SignOp_from_str(toks[n - 1].literal)[1], toks[n])

\* C10: a call of parse starts in BeforeSign, and a token it accepts moves
\* it one step along BeforeSign -> Sign -> AfterSign -> Join -> BeforeSign.
\* Only the step AfterSign -> Join appends to the output: one Expr item
\* with the pending join, made of the left operand, the operator and the
\* right operand accepted in that cycle.  Accepting a left operand leaves a
\* pending Expr with that operand, op None and no right operand.
C10_StateCycle ==
    /\ ev.act \in {"none", "group"} /\ Depth > 0 =>
           Top.step = "BeforeSign" /\ Top.result = <<>>
    /\ ev.act = "skip" =>
           Top.step = ev.step /\ Top.result = ev.frame.result
    /\ ev.act = "accept" =>
           LET f == ev.frame
               g == Top
           IN  /\ Depth = ev.depth
               /\ g.step = StepAfter(f.step)
               /\ f.step # "AfterSign" => g.result = f.result
               /\ f.step = "BeforeSign" =>
                      g.expr = Expr(ev.tok, "None", TokenNone)
               /\ f.step = "AfterSign" =>
                      /\ Len(g.toks) >= 3
                      /\ g.expr = LastCycleExpr(g.toks)
                      /\ g.result =
                             Append(f.result,
                                    ExprGroup(f.join, ItemExpr(g.expr)))

\* C10 witness: the left operand of a second cycle is accepted while the
\* pending Expr still holds the first cycle's operator and right operand
C10_Witness ==
    /\ ev.act = "accept"
    /\ ev.step = "BeforeSign"
    /\ ev.frame.expr.op # "None"
    /\ ev.frame.expr.right # TokenNone
    /\ Top.expr = Expr(ev.tok, "None", TokenNone)

\* the last iteration ended its call with an error
Failed == ev.act \in {"scan_err", "unexpected", "eof_err"}

\* the kind of the error that iteration raised, from the call's own scanner
\* and locals
RaisedKind ==
    CASE ev.act = "scan_err" -> scan(ev.frame.buffer, ev.frame.pos).err
      [] ev.act = "unexpected" -> "Unexpected"
      [] ev.act = "eof_err" ->
             IF Len(ev.frame.result) = 0 /\ is_zero(ev.frame.expr)
             THEN "Empty" ELSE "Incomplete"

\* C11: when the parse of a Group token's literal fails, at any depth, every
\* enclosing call fails with it: the outermost parse returns the error of
\* that kind, no call is left to append the group or to scan another token.
C11_NestedErrorPropagates ==
    Failed /\ ev.depth >= 2 =>
        /\ outcome = RetErr(RaisedKind)
        /\ stack = <<>>

\* C11 witness: a token of the wrong kind two groups down
C11_Witness ==
    /\ ev.act = "unexpected"
    /\ ev.depth = 3
    /\ outcome = RetErr("Unexpected")
    /\ stack = <<>>

Quotes == {"'", "\""}

\* the characters of s at the places in keep, in order
RECURSIVE Pick(_, _, _)
Pick(s, keep, i) ==
    IF i > Len(s) THEN <<>>
    ELSE (IF i \in keep THEN <<s[i]>> ELSE <<>>) \o Pick(s, keep, i + 1)

\* the source the last scan() went over, without its first and last byte
ScannedBody == SubSeq(input, sc.start + 2, sc.pos - 1)

\* scan() has just returned a Text token
TextScanned == ScannedToken /\ sc.last.tok.kind = "Text"

\* C12: the literal of a Text token scanned at top level is the source
\* between its quotes without the backslashes that stand immediately before
\* the text's own quote character; every other backslash stays, also one
\* before the other quote character.
C12_Unescape ==
    TextScanned =>
        LET q == input[sc.start + 1]
            body == ScannedBody
            escapes == {i \in 1..(Len(body) - 1) :
                            body[i] = "\\" /\ body[i + 1] = q}
        IN  /\ q \in Quotes
            /\ input[sc.pos] = q
            /\ sc.last.tok.literal = Pick(body, (1..Len(body)) \ escapes, 1)

\* C12 witness: a text with an escaped quote of its own kind
C12_Witness ==
    /\ TextScanned
    /\ Len(sc.last.tok.literal) < Len(ScannedBody)
    /\ \E i \in 1..Len(sc.last.tok.literal) : sc.last.tok.literal[i] \in Quotes

\* scan() has just returned a Group token
GroupScanned == ScannedToken /\ sc.last.tok.kind = "Group"

\* C13: the literal of a Group token is the source between the opening
\* parenthesis and the closing one the scan stopped at, byte for byte.
C13_GroupLiteral ==
    GroupScanned =>
        /\ input[sc.start + 1] = "("
        /\ input[sc.pos] = ")"
        /\ sc.last.tok.literal = ScannedBody

\* C13 witness: a group holding a quoted closing parenthesis
C13_Witness ==
    /\ GroupScanned
    /\ \E i \in 1..Len(sc.last.tok.literal) : sc.last.tok.literal[i] = ")"
    /\ \E i \in 1..Len(sc.last.tok.literal) : sc.last.tok.literal[i] \in Quotes

\* Where the group opened just before place i of s closes, by the rule of
\* the claim: depth counts the parentheses open outside quoted text, quote
\* is the quote character of the text being read ("" outside one) and prev
\* the character before place i in that text.  The place of the closing
\* parenthesis, 0 when s ends first, -1 when s ends inside a quoted text.
RECURSIVE MatchingClose(_, _, _, _, _)
MatchingClose(s, i, depth, quote, prev) ==
    IF i > Len(s) THEN (IF quote # "" THEN -1 ELSE 0)
    ELSE IF quote # ""
    THEN IF s[i] = quote /\ prev # "\\"
         THEN MatchingClose(s, i + 1, depth, "", "")
         ELSE MatchingClose(s, i + 1, depth, quote, s[i])
    ELSE IF s[i] \in Quotes THEN MatchingClose(s, i + 1, depth, s[i], "")
    ELSE IF s[i] = "(" THEN MatchingClose(s, i + 1, depth + 1, "", "")
    ELSE IF s[i] = ")"
    THEN IF depth = 1 THEN i
         ELSE MatchingClose(s, i + 1, depth - 1, "", "")
    ELSE MatchingClose(s, i + 1, depth, "", "")

\* the last scan() started at an opening parenthesis
GroupStarted ==
    /\ sc.last.st # "none"
    /\ sc.start < Len(input)
    /\ input[sc.start + 1] = "("

\* C14: a group ends at the first `)` outside quoted text that brings the
\* count of open parentheses, 1 at the start and one more for each `(`
\* outside quoted text, to zero; parentheses inside quoted text do not
\* count.  A quoted text left open inside the group makes scan() fail with
\* Invalid.
C14_GroupEnd ==
    GroupStarted =>
        LET m == MatchingClose(input, sc.start + 2, 1, "", "") IN
        /\ m > 0 => /\ sc.last.st = "ok"
                    /\ sc.last.tok.kind = "Group"
                    /\ sc.pos = m
        /\ m = -1 => sc.last.st = "err" /\ sc.last.err = "Invalid"

\* C15: from_str(as_str(op)) gives back op for each of the 16 SignOp values
\* other than None and for both JoinOp values; no two operators of an enum
\* print alike; and from_str gives no operator for any string that is not
\* one of these, the empty string that SignOp::None prints as included.
C15_OperatorInverse ==
    /\ conv.stage = "printed" =>
           \A other \in Ops :
               other.enum = conv.op.enum /\ other # conv.op =>
                   as_str(other) # conv.str
    /\ conv.stage = "reparsed" =>
           IF conv.op.value = "None"
           THEN conv.str = <<>> /\ conv.back = None
           ELSE conv.back = Some(conv.op.value)
    /\ conv.stage = "parsed" =>
           LET strings == IF conv.op.enum = "SignOp" THEN SignStrings
                          ELSE JoinStrings
           IN  /\ conv.str \notin strings => conv.back = None
               /\ conv.str \in strings =>
                      /\ conv.back # None
                      /\ as_str(Op(conv.op.enum, conv.back[1])) = conv.str

\* C15 witness: a three-character sign operator has come back from its
\* string
C15_Witness ==
    /\ conv.stage = "reparsed"
    /\ conv.op = Op("SignOp", "AnyNlike")
    /\ conv.str = <<"?", "!", "~">>
    /\ conv.back = Some("AnyNlike")

\* the last place of the maximal run of characters of chars that starts at
\* place i of s (i - 1 when there is none)
RECURSIVE RunEnd(_, _, _)
RunEnd(s, i, chars) ==
    IF i <= Len(s) /\ s[i] \in chars THEN RunEnd(s, i + 1, chars) ELSE i - 1

\* the last scan() started at a character of chars
LookingAt(chars) ==
    /\ sc.last.st # "none"
    /\ sc.start < Len(input)
    /\ input[sc.start + 1] \in chars

\* the run the last scan() started at: its first character, then the
\* maximal run of characters of chars
RunFrom(chars) ==
    SubSeq(input, sc.start + 1, RunEnd(input, sc.start + 2, chars))

\* the last scan() returned the token of that kind and literal
Returned(kind, literal) ==
    sc.last.st = "ok" /\ sc.last.tok = Token(kind, literal)

\* the last scan() failed with Invalid
ReturnedInvalid == sc.last.st = "err" /\ sc.last.err = "Invalid"

SignChars == {"=", "?", "!", ">", "<", "~"}

\* C16: at a sign character scan() takes the maximal run of sign characters
\* and returns it as a Sign token exactly when the whole run is one of the
\* 16 operator strings; any other run gives Invalid.
C16_SignRun ==
    LookingAt(SignChars) =>
        LET run == RunFrom(SignChars) IN
        /\ sc.pos >= sc.start + Len(run)
        /\ IF run \in SignStrings THEN Returned("Sign", run)
           ELSE ReturnedInvalid

\* C16 witness: a run made of two operators is refused as a whole
C16_Witness ==
    /\ LookingAt(SignChars)
    /\ RunFrom(SignChars) = <<"=", "!", "=">>
    /\ ReturnedInvalid
    /\ sc.pos = sc.start + 3

JoinChars == {"&", "|"}

\* C17: at `&` or `|` scan() takes the maximal run of these characters and
\* returns it as a Join token exactly when the run is `&&` or `||`; any
\* other run gives Invalid.
C17_JoinRun ==
    LookingAt(JoinChars) =>
        LET run == RunFrom(JoinChars) IN
        /\ sc.pos >= sc.start + Len(run)
        /\ IF run \in JoinStrings THEN Returned("Join", run)
           ELSE ReturnedInvalid

\* C17 witness: two joins in one run are refused
C17_Witness ==
    /\ LookingAt(JoinChars)
    /\ RunFrom(JoinChars) = <<"&", "&", "|", "|">>
    /\ ReturnedInvalid

IdentifierStartChars == Letters \cup {"_", "@", "#"}

IdentifierChars == Letters \cup Digits \cup {".", ":", "_", "@", "#"}

\* the identifier run the last scan() started at
IdentifierRun == RunFrom(IdentifierChars)

EndsInDotOrColon(run) == run[Len(run)] \in {".", ":"}

\* C18 as stated: an identifier run that ends in `.` or `:`, or that is
\* just `@`, just `#` or just `_`, gives Invalid.
C18_IdentifierRejected ==
    /\ LookingAt(IdentifierStartChars)
    /\ \/ EndsInDotOrColon(IdentifierRun)
       \/ IdentifierRun \in {<<"@">>, <<"#">>, <<"_">>}
    => ReturnedInvalid

\* C18 amended: an identifier run that ends in `.` or `:`, or that is just
\* `@` or just `#`, gives Invalid; the run `_` alone is returned as the
\* Identifier `_`, the underscore being a word character.
C18_IdentifierValidated ==
    LookingAt(IdentifierStartChars) =>
        /\ (EndsInDotOrColon(IdentifierRun)
               \/ IdentifierRun \in {<<"@">>, <<"#">>}) => ReturnedInvalid
        /\ IdentifierRun = <<"_">> => Returned("Identifier", <<"_">>)

\* C18 witness: the lone underscore is returned as an Identifier
C18_Witness ==
    /\ LookingAt(IdentifierStartChars)
    /\ IdentifierRun = <<"_">>
    /\ Returned("Identifier", <<"_">>)

\* the number run the last scan() started at
NumberRun == RunFrom(Digits \cup {"."})

AllDigits(s) == s # <<>> /\ \A i \in 1..Len(s) : s[i] \in Digits

\* '-'? digits ('.' digits)?
StrictNumberShape(lit) ==
    LET body == IF lit # <<>> /\ lit[1] = "-" THEN Tail(lit) ELSE lit IN
    \/ AllDigits(body)
    \/ \E k \in 1..Len(body) :
           /\ body[k] = "."
           /\ AllDigits(SubSeq(body, 1, k - 1))
           /\ AllDigits(SubSeq(body, k + 1, Len(body)))

\* C19 as stated: scan() returns a Number token exactly when the run it
\* took matches '-'? digits ('.' digits)?, and Invalid for every other run.
C19_NumberStrict ==
    LookingAt(Digits \cup {"-"}) =>
        IF StrictNumberShape(NumberRun) THEN Returned("Number", NumberRun)
        ELSE ReturnedInvalid

\* C19 amended: scan() returns a Number token exactly when the run it took
\* is an optional '-', then digits with at most one '.', with at least one
\* digit and no '.' at the end; the digits before the '.' may be missing, so
\* `-.5` is a Number, while `-`, `-.`, `1.` and `1.2.3` give Invalid.
C19_NumberRun ==
    LookingAt(Digits \cup {"-"}) =>
        IF NumberShape(NumberRun) THEN Returned("Number", NumberRun)
        ELSE ReturnedInvalid

\* C19 witness: a number without a digit before its '.'
C19_Witness ==
    /\ LookingAt({"-"})
    /\ NumberRun = <<"-", ".", "1">>
    /\ Returned("Number", <<"-", ".", "1">>)

\* the first place from i on where s holds the quote q with no backslash
\* right before it in the text that starts at place from; 0 when none
RECURSIVE ClosingQuote(_, _, _, _)
ClosingQuote(s, i, from, q) ==
    IF i > Len(s) THEN 0
    ELSE IF s[i] = q /\ (i = from \/ s[i - 1] # "\\") THEN i
    ELSE ClosingQuote(s, i + 1, from, q)

\* C20: a quoted text ends at the first occurrence of its opening quote
\* character that has no backslash right before it; scan() returns the Text
\* token there.  When the input holds no such quote, scan() returns Invalid
\* with the cursor at the end of the input, and the next scan() gives Eof.
C20_TextEnd ==
    LookingAt(Quotes) =>
        LET e == ClosingQuote(input, sc.start + 2, sc.start + 2,
                              input[sc.start + 1])
        IN  IF e > 0
            THEN /\ sc.last.st = "ok"
                 /\ sc.last.tok.kind = "Text"
                 /\ sc.pos = e
            ELSE /\ ReturnedInvalid
                 /\ sc.pos = Len(input)
                 /\ scan(input, sc.pos).tok.kind = "Eof"

\* The parentheses still open when s ends, counted as MatchingClose counts
\* them from place i on; 0 when the group closes before the end of s.
RECURSIVE Unclosed(_, _, _, _, _)
Unclosed(s, i, depth, quote, prev) ==
    IF i > Len(s) THEN depth
    ELSE IF quote # ""
    THEN IF s[i] = quote /\ prev # "\\"
         THEN Unclosed(s, i + 1, depth, "", "")
         ELSE Unclosed(s, i + 1, depth, quote, s[i])
    ELSE IF s[i] \in Quotes THEN Unclosed(s, i + 1, depth, s[i], "")
    ELSE IF s[i] = "(" THEN Unclosed(s, i + 1, depth + 1, "", "")
    ELSE IF s[i] = ")"
    THEN IF depth = 1 THEN 0
         ELSE Unclosed(s, i + 1, depth - 1, "", "")
    ELSE Unclosed(s, i + 1, depth, "", "")

\* C21: when the input ends, outside quoted text, before the parenthesis
\* that closes the group, scan() returns Invalid and the number in its
\* message is the number of parentheses opened outside quoted text, the
\* first one included, that are still open at the end of the input; that
\* number is at least 1.
C21_MissingCount ==
    (GroupStarted /\ MatchingClose(input, sc.start + 2, 1, "", "") = 0) =>
        /\ ReturnedInvalid
        /\ sc.last.missing = Unclosed(input, sc.start + 2, 1, "", "")
        /\ sc.last.missing >= 1

\* the first place from i on where s holds a newline, Len(s) + 1 when none
RECURSIVE LineEnd(_, _)
LineEnd(s, i) ==
    IF i > Len(s) \/ s[i] = "\n" THEN i ELSE LineEnd(s, i + 1)

Blanks == {" ", "\t", "\r", "\f", "\n"}

\* s without the blanks at its two ends
RECURSIVE Stripped(_)
Stripped(s) ==
    IF s = <<>> THEN s
    ELSE IF s[1] \in Blanks THEN Stripped(Tail(s))
    ELSE IF s[Len(s)] \in Blanks THEN Stripped(SubSeq(s, 1, Len(s) - 1))
    ELSE s

\* C22: at a `/`, when the next character is `/` too, scan() returns a
\* Comment token whose literal is the text after the two slashes up to the
\* next newline, or to the end of the input, without the whitespace at its
\* two ends, and the newline is consumed; when the next character is
\* anything else, or the input ends, scan() returns Invalid.
C22_Comment ==
    LookingAt({"/"}) =>
        IF sc.start + 2 <= Len(input) /\ input[sc.start + 2] = "/"
        THEN LET e == LineEnd(input, sc.start + 3) IN
             /\ Returned("Comment",
                         Stripped(SubSeq(input, sc.start + 3, e - 1)))
             /\ sc.pos = IF e > Len(input) THEN Len(input) ELSE e
        ELSE ReturnedInvalid

\* parse as a function returns what the run of the loop returns
ParseAgrees == Finished => outcome = parse(input)

\* The whitespace tokens of buffer from pos on and of the groups in it, at
\* any depth, as the places <<first, last>> they take in the whole input;
\* offset is the number of characters of the input before buffer.
RECURSIVE WsSpans(_, _, _)
WsSpans(buffer, pos, offset) ==
    LET t == scan(buffer, pos) IN
    IF t.st # "ok" \/ t.tok.kind = "Eof" THEN {}
    ELSE LET here ==
                 IF t.tok.kind = "Ws"
                 THEN {<<offset + pos + 1, offset + t.pos>>}
                 ELSE IF t.tok.kind = "Group"
                 THEN WsSpans(t.tok.literal, 0, offset + pos + 1)
                 ELSE {}
         IN here \cup WsSpans(buffer, t.pos, offset)

\* comment bodies, a parenthesis or a quote in some of them
CommentBodies ==
    {<<>>, <<"a">>, <<" ", "a", "=">>, <<"(">>, <<")">>, <<"'">>, <<"\"">>}

\* the input with the characters at span replaced by the line comment
\* // body newline
CommentAt(span, body) ==
    SubSeq(input, 1, span[1] - 1) \o <<"/", "/">> \o body \o <<"\n">>
        \o SubSeq(input, span[2] + 1, Len(input))

\* C23: when parse accepts the input, it returns the same result for the
\* input with one whitespace token, at the top level or inside a group at
\* any depth, replaced by a line comment, whatever the body of the comment.
C23_CommentForWhitespace ==
    (Finished /\ outcome.kind = "ok") =>
        \A span \in WsSpans(input, 0, 0) : \A body \in CommentBodies :
            parse(CommentAt(span, body)) = outcome

\* the first entry of groups, and of every ExprGroups nested in it, is
\* joined by And
RECURSIVE FirstJoinAnd(_)
FirstJoinAnd(groups) ==
    /\ groups # <<>> => groups[1].join = "And"
    /\ \A i \in 1..Len(groups) :
           groups[i].item.variant = "ExprGroups" =>
               FirstJoinAnd(groups[i].item.value)

\* C24: in every ExprGroups that parse returns, from the outermost call and
\* from every nested call, the first entry's join is And, and so it is in
\* every ExprGroups nested in one.
C24_FirstJoinAnd ==
    /\ outcome.kind = "ok" => FirstJoinAnd(outcome.value)
    /\ ev.act = "eof_ok" => FirstJoinAnd(ev.frame.result)

\* C24 witness: a returned sequence whose first entry is a nested ExprGroups
\* and whose second entry is joined by Or
C24_Witness ==
    /\ outcome.kind = "ok"
    /\ Len(outcome.value) = 2
    /\ outcome.value[1].join = "And"
    /\ outcome.value[1].item.variant = "ExprGroups"
    /\ outcome.value[1].item.value[1].join = "And"
    /\ outcome.value[2].join = "Or"

\* a token sequence that starts a filter: items with a join between each
\* two, then possibly the first tokens of one more item
RECURSIVE StartsFilter(_)
StartsFilter(toks) ==
    LET n == ItemLen(toks) IN
    IF toks = <<>> THEN TRUE
    ELSE IF n = 0
    THEN /\ Len(toks) <= 2
         /\ is_operand(toks[1])
         /\ Len(toks) = 2 => toks[2].kind = "Sign"
    ELSE \/ Len(toks) = n
         \/ /\ toks[n + 1].kind = "Join"
            /\ StartsFilter(SubSeq(toks, n + 2, Len(toks)))

\* the item that the tokens of one item stand for
ItemOf(toks) ==
    IF toks[1].kind = "Group"
    THEN ItemExprGroups(parse(toks[1].literal).value)
    ELSE ItemExpr(Expr(toks[1], SignOp_from_str(toks[2].literal)[1], toks[3]))

\* The entries for the complete items of item_1 join_1 item_2 ..., in that
\* order: item_1 with join, each later item with the operator of the join
\* token before it.
RECURSIVE Entries(_, _)
Entries(toks, join) ==
    LET n == ItemLen(toks) IN
    IF toks = <<>> \/ n = 0 THEN <<>>
    ELSE <<ExprGroup(join, ItemOf(toks))>> \o
         (IF Len(toks) > n
          THEN Entries(SubSeq(toks, n + 2, Len(toks)),
                       JoinOp_from_str(toks[n + 1].literal)[1])
          ELSE <<>>)

\* the tokens the call at place i of the stack has dealt with: the Group
\* token whose nested call is still running is not among them
Handled(i) ==
    IF i < Depth
    THEN SubSeq(stack[i].toks, 1, Len(stack[i].toks) - 1)
    ELSE stack[i].toks

\* C25: while a call reads item_1 join_1 item_2 ... join_(k-1) item_k, its
\* sequence holds, after every token, one entry for each item read in full
\* so far, in the order of the items, entry i > 1 with the operator of
\* join_(i-1): an entry once appended stays as it is and where it is.  The
\* sequence returned for an accepted input of that form has exactly its k
\* entries.
C25_EntriesInOrder ==
    /\ \A i \in 1..Depth :
           StartsFilter(Handled(i)) =>
               stack[i].result = Entries(Handled(i), "And")
    /\ (ev.act = "eof_ok" /\ IsFilter(ev.frame.toks)) =>
           ev.frame.result = Entries(ev.frame.toks, "And")
    /\ (outcome.kind = "ok" /\ IsFilter(ev.frame.toks)) =>
           outcome.value = Entries(ev.frame.toks, "And")

\* C25 witness: three items, the second one a group, returned as three
\* entries joined by And, Or and And
C25_Witness ==
    /\ outcome.kind = "ok"
    /\ IsFilter(ev.frame.toks)
    /\ Len(outcome.value) = 3
    /\ outcome.value[1].item.variant = "Expr"
    /\ outcome.value[2].join = "Or"
    /\ outcome.value[2].item.variant = "ExprGroups"
    /\ Len(outcome.value[2].item.value) = 2
    /\ outcome.value[3].join = "And"

\* the printed form of a token by the claim: { kind literal }
PrintedToken(t) ==
    LET kind ==
            CASE t.kind = "Identifier" -> <<"i", "d", "e", "n", "t", "i", "f", "i", "e", "r">>
              [] t.kind = "Number" -> <<"n", "u", "m", "b", "e", "r">>
              [] t.kind = "Text" -> <<"t", "e", "x", "t">>
    IN <<"{">> \o kind \o <<" ">> \o t.literal \o <<"}">>

\* the strings of parts with sep between each two
RECURSIVE Separated(_, _)
Separated(parts, sep) ==
    IF parts = <<>> THEN <<>>
    ELSE IF Len(parts) = 1 THEN parts[1]
    ELSE parts[1] \o sep \o Separated(Tail(parts), sep)

\* The canonical form of an ExprGroups: `[`, the entries with one space
\* between each two, `]`; an entry is `{join item}`, an Expr item
\* `{left op right}`, a nested ExprGroups item its own canonical form.
RECURSIVE Canonical(_)
Canonical(groups) ==
    LET item(it) ==
            IF it.variant = "ExprGroups" THEN Canonical(it.value)
            ELSE Separated(<<<<"{">> \o PrintedToken(it.value.left),
                             as_str(Op("SignOp", it.value.op)),
                             PrintedToken(it.value.right) \o <<"}">>>>, <<" ">>)
        entry(g) ==
            <<"{">> \o as_str(Op("JoinOp", g.join)) \o <<" ">> \o item(g.item)
                    \o <<"}">>
    IN <<"[">> \o Separated([i \in 1..Len(groups) |-> entry(groups[i])], <<" ">>)
              \o <<"]">>

\* C26: what to_string() gives for a value that parse returned is its
\* canonical form: `[` + entries separated by single spaces + `]`, an entry
\* `{join item}`, an Expr `{left op right}`, a Token `{kind literal}`, a
\* nested ExprGroups in the same bracketed form; `a=1 || 2!=3` prints as
\* `[{&& {{identifier a} = {number 1}}} {|| {{number 2} != {number 3}}}]`.
C26_PrintCanonical ==
    conv.stage = "printed" =>
        /\ conv.str = Canonical(outcome.value)
        /\ input = <<"a", "=", "1", " ", "|", "|", " ", "2", "!", "=", "3">> =>
               conv.str = <<"[", "{", "&", "&", " ", "{", "{", "i", "d", "e", "n", "t", "i", "f", "i", "e", "r", " ", "a", "}", " ", "=", " ", "{", "n", "u", "m", "b", "e", "r", " ", "1", "}", "}", "}", " ", "{", "|", "|", " ", "{", "{", "n", "u", "m", "b", "e", "r", " ", "2", "}", " ", "!", "=", " ", "{", "n", "u", "m", "b", "e", "r", " ", "3", "}", "}", "}", "]">>

\* C26 witness: a printed value of two entries, the first one a nested
\* ExprGroups of two entries
C26_Witness ==
    /\ conv.stage = "printed"
    /\ Len(outcome.value) = 2
    /\ outcome.value[1].item.variant = "ExprGroups"
    /\ Len(outcome.value[1].item.value) = 2
    /\ outcome.value[2].item.variant = "Expr"
    /\ outcome.value[2].item.value.left.kind = "Text"

RECURSIVE MaxNesting(_, _, _, _, _, _)
MaxNesting(s, i, depth, deepest, mode, prev) ==
    IF i > Len(s) THEN deepest
    ELSE IF mode \notin {"", "//"}
    THEN IF s[i] = mode /\ prev # "\\"
         THEN MaxNesting(s, i + 1, depth, deepest, "", "")
         ELSE MaxNesting(s, i + 1, depth, deepest, mode, s[i])
    ELSE IF mode = "" /\ s[i] \in Quotes
    THEN MaxNesting(s, i + 1, depth, deepest, s[i], "")
    ELSE IF mode = "" /\ s[i] = "/" /\ i < Len(s) /\ s[i + 1] = "/"
    THEN MaxNesting(s, i + 2, depth, deepest, "//", "")
    ELSE IF s[i] = "("
    THEN MaxNesting(s, i + 1, depth + 1,
                    IF depth + 1 > deepest THEN depth + 1 ELSE deepest,
                    mode, "")
    ELSE IF s[i] = ")"
    THEN MaxNesting(s, i + 1, IF depth > 0 THEN depth - 1 ELSE 0, deepest,
                    mode, "")
    ELSE MaxNesting(s, i + 1, depth, deepest,
                    IF s[i] = "\n" THEN "" ELSE mode, "")

\* every nested call reads a text shorter than its caller's, and the calls
\* are never nested deeper than the parentheses of the input
ShorterAndShallower ==
    /\ \A i \in 2..Depth : Len(stack[i].buffer) < Len(stack[i - 1].buffer)
    /\ Depth > 0 => Depth - 1 <= MaxNesting(input, 1, 0, 0, "", "")

\* What the active calls have left to do: the characters their scanners have
\* not read yet, and one for each call.
RECURSIVE Remaining(_)
Remaining(i) ==
    IF i = 0 THEN 0
    ELSE Len(stack[i].buffer) - stack[i].pos + 1 + Remaining(i - 1)

Rank == Remaining(Depth)

RECURSIVE CompleteItems(_)
CompleteItems(toks) ==
    IF toks = <<>> THEN 0
    ELSE LET n == ItemLen(toks) IN
         IF n = 0 THEN CompleteItems(Tail(toks))
         ELSE 1 + CompleteItems(SubSeq(toks, n + 1, Len(toks)))

\* every Expr among the entries of groups has its operator and both operands
AllExprComplete(groups) ==
    \A i \in 1..Len(groups) :
        groups[i].item.variant = "Expr" =>
            /\ is_operand(groups[i].item.value.left)
            /\ groups[i].item.value.op # "None"
            /\ is_operand(groups[i].item.value.right)

\* C29: when the nested parse of a Group token returns Ok, the caller, in
\* whichever state it read the token, appends the nested result with its
\* pending join and goes to Join, with no error; nothing else is appended,
\* so a left operand or an operator taken before the group and not yet
\* completed into an item is dropped: the sequence a call returns has one
\* entry for each Group token and each complete operand sign operand.
C29_GroupAnyState ==
    /\ (ev.act = "eof_ok" /\ ev.depth > 1) =>
           /\ outcome = Running
           /\ Depth = ev.depth - 1
           /\ ev.caller.step \in {"BeforeSign", "Sign", "AfterSign", "Join"}
           /\ Top.step = "Join"
           /\ Top.result =
                  Append(ev.caller.result,
                         ExprGroup(ev.caller.join,
                                   ItemExprGroups(ev.frame.result)))
           /\ Top.join = ev.caller.join
    /\ ev.act = "eof_ok" =>
           /\ Len(ev.frame.result) = CompleteItems(ev.frame.toks)
           /\ AllExprComplete(ev.frame.result)

\* C29 witness: a group read in AfterSign, after an identifier and a sign
\* that are dropped
C29_Witness ==
    /\ ev.act = "eof_ok"
    /\ ev.depth = 2
    /\ ev.caller.step = "AfterSign"
    /\ ev.caller.expr.left.kind = "Identifier"
    /\ ev.caller.expr.op = "Eq"
    /\ Len(Top.result) = 1
    /\ Top.step = "Join"

\* groups and every ExprGroups nested in it have at least one entry
RECURSIVE NonEmptyAll(_)
NonEmptyAll(groups) ==
    /\ Len(groups) >= 1
    /\ \A i \in 1..Len(groups) :
           groups[i].item.variant = "ExprGroups" =>
               NonEmptyAll(groups[i].item.value)

\* C30: a call whose state is Join has a non-empty sequence; so every
\* ExprGroups that a call of parse returns has at least one entry, and so
\* has every ExprGroups nested in it: the Group branch never meets an empty
\* nested result.
C30_JoinNonEmpty ==
    /\ \A i \in 1..Depth :
           stack[i].step = "Join" => NonEmptyAll(stack[i].result)
    /\ outcome.kind = "ok" => NonEmptyAll(outcome.value)
    /\ ev.act = "eof_ok" =>
           /\ ev.frame.step = "Join"
           /\ NonEmptyAll(ev.frame.result)

\* C30 witness: an outermost call brought to Join by a group alone, its
\* sequence holding the nested result
C30_Witness ==
    /\ ev.act = "eof_ok"
    /\ ev.depth = 2
    /\ ev.caller.step = "BeforeSign"
    /\ ev.caller.result = <<>>
    /\ Top.step = "Join"
    /\ Top.result = <<ExprGroup("And", ItemExprGroups(ev.frame.result))>>
    /\ Len(ev.frame.result) >= 1

\* C31: when a call of parse returns Ok, its scanner has read its whole
\* text: the Eof token that ended the loop was given with the cursor at the
\* end of the buffer, so nothing after the last token taken is left
\* unread, also when the text holds a NUL byte.
C31_WholeInput ==
    ev.act = "eof_ok" =>
        /\ ev.tok.kind = "Eof"
        /\ ev.frame.pos = Len(ev.frame.buffer)

\* the characters that start a token of some class
ClassChars ==
    {" ", "\t", "\n", "(", "/", "-"} \cup IdentifierStartChars \cup Digits
        \cup Quotes \cup SignChars \cup JoinChars

\* C32: at a character that starts no token and is not the end of the
\* input, scan() returns Unexpected and has consumed that one character:
\* the next scan() starts at the character after it.
C32_UnexpectedOneChar ==
    (/\ sc.last.st # "none"
     /\ sc.start < Len(input)
     /\ input[sc.start + 1] \notin ClassChars) =>
        /\ sc.last.st = "err"
        /\ sc.last.err = "Unexpected"
        /\ sc.pos = sc.start + 1

\* C33: a scan() call made with the cursor before the end of the input,
\* whether it returns a token or an error, leaves the cursor at least one
\* place further on, a failed comment scan two places when a second
\* character exists; so on an input of length L the scan() call after L
\* calls finds the cursor at the end and returns Eof.
C33_Progress ==
    /\ (sc.last.st \in {"ok", "err"} /\ sc.start < Len(input)) =>
           sc.pos > sc.start
    /\ (LookingAt({"/"}) /\ ReturnedInvalid /\ sc.start + 2 <= Len(input)) =>
           sc.pos = sc.start + 2
    /\ (sc.last.st \in {"ok", "err"} /\ sc.calls = Len(input) + 1) =>
           /\ sc.start = Len(input)
           /\ sc.last.st = "ok"
           /\ sc.last.tok.kind = "Eof"

\* C33 witness: a failed comment scan in the middle of the input that took
\* two characters, the second one no slash
C33_Witness ==
    /\ LookingAt({"/"})
    /\ ReturnedInvalid
    /\ sc.start >= 1
    /\ sc.pos = sc.start + 2
    /\ input[sc.pos] = "a"
    /\ sc.pos < Len(input)

\* the characters that go on a run started by the character c
RunChars(c) ==
    IF c \in {" ", "\t", "\n"} THEN {" ", "\t", "\n"}
    ELSE IF c \in IdentifierStartChars THEN IdentifierChars
    ELSE IF c \in Digits \cup {"-"} THEN Digits \cup {"."}
    ELSE IF c \in SignChars THEN SignChars
    ELSE IF c \in JoinChars THEN JoinChars
    ELSE {}

\* C34: after scan() has returned a whitespace, identifier, number, sign or
\* join token, or Invalid for such a run, the cursor stands after the last
\* character of the maximal run: at the end of the input or at the first
\* character that cannot go on the run, which is not consumed.
C34_MaximalRun ==
    (/\ sc.last.st \in {"ok", "err"}
     /\ sc.start < Len(input)
     /\ RunChars(input[sc.start + 1]) # {}) =>
        /\ sc.pos = RunEnd(input, sc.start + 2, RunChars(input[sc.start + 1]))
        /\ \/ ReturnedInvalid
           \/ /\ sc.last.st = "ok"
              /\ sc.last.tok.kind \in
                     {"Ws", "Identifier", "Number", "Sign", "Join"}
              /\ sc.last.tok.literal = SubSeq(input, sc.start + 1, sc.pos)

\* the read() and unread() calls of the last scan()
LastOps == scan_ops(input, sc.start)

\* the calls of one scan() follow one another on the same cursor, from where
\* the call started to where it left the cursor
OpsAgree ==
    sc.last.st # "none" =>
        /\ LastOps[1].from = sc.start
        /\ LastOps[Len(LastOps)].to = sc.pos
        /\ \A i \in 2..Len(LastOps) : LastOps[i].from = LastOps[i - 1].to

\* C35: the cursor stays within 0..length of the input; read() at the end
\* of the input leaves it where it is; unread() is called only right after
\* a read() that consumed a character, so it moves the cursor back by
\* exactly one, and never before the start of the token being scanned.
C35_CursorBounds ==
    /\ sc.pos \in 0..Len(input)
    /\ sc.last.st # "none" =>
           /\ OpsAgree
           /\ \A i \in 1..Len(LastOps) :
                  LET o == LastOps[i] IN
                  /\ o.from \in 0..Len(input)
                  /\ o.to \in 0..Len(input)
                  /\ (o.op = "read" /\ o.from = Len(input)) => o.to = o.from
                  /\ o.op = "unread" =>
                         /\ i > 1
                         /\ LastOps[i - 1].op = "read"
                         /\ LastOps[i - 1].to = LastOps[i - 1].from + 1
                         /\ o.to = o.from - 1
                         /\ o.to >= sc.start

\* C35 witness: a scan() that called unread() twice, once in scan() and once
\* at the end of a run in the middle of the input, and a later scan() whose
\* read() at the end of the input left the cursor there
C35_Witness ==
    /\ sc.last.st = "ok"
    /\ sc.start >= 1
    /\ sc.pos < Len(input)
    /\ Len(LastOps) >= 6
    /\ LastOps[2].op = "unread"
    /\ LastOps[Len(LastOps)].op = "unread"
    /\ read_op(input, Len(input)).to = Len(input)

\* What scan() yields on buffer from pos on, call by call up to Eof or to
\* the call that fails, without the whitespace and comment tokens.
RECURSIVE Yields(_, _)
Yields(buffer, pos) ==
    LET r == scan(buffer, pos) IN
    IF r.st # "ok" THEN <<[r EXCEPT !.pos = 0]>>
    ELSE IF r.tok.kind = "Eof" THEN <<>>
    ELSE IF IsSkipped(r.tok) THEN Yields(buffer, r.pos)
    ELSE <<[r EXCEPT !.pos = 0]>> \o Yields(buffer, r.pos)

Padding == {<<" ">>, <<"\n", "\t">>, <<"/", "/", "a", "\n">>, <<"/", "/", "\n">>}

\* text with padding put in before its character k + 1
Padded(text, k, padding) ==
    SubSeq(text, 1, k) \o padding \o SubSeq(text, k + 1, Len(text))

\* the texts made from text by one padding that scan to the same tokens save
\* for whitespace and comments
SameButSkipped(text) ==
    {v \in {Padded(text, k, p) : k \in 0..Len(text), p \in Padding} :
        Yields(v, 0) = Yields(text, 0)}

\* the iteration of parse before the current state took a Ws or Comment token
SkipStep == ev'.act = "skip" /\ ev' # ev

\* C36: the iteration of parse that takes a Whitespace or Comment token
\* changes nothing but the scanner's cursor: step, pending join, pending
\* Expr and result of the call stay as they are, in every step and at every
\* depth; and a text that scans to the same tokens as the input but for
\* whitespace and comment tokens gives the same outcome.
C36_SkipChangesNothing ==
    /\ [][SkipStep =>
              /\ Len(stack') = Len(stack)
              /\ \A i \in 1..Len(stack) :
                     stack'[i] = [stack[i] EXCEPT !.pos = stack'[i].pos]
              /\ outcome' = outcome]_vars
    /\ [](Finished =>
              /\ \A v \in SameButSkipped(input) : parse(v) = outcome
              /\ parse(<<"1", "=", "1", "2">>) =
                     parse(<<" ", " ", " ", "1", " ", " ", " ", " ", "=", " ",
                             " ", " ", " ", "1", "2", " ", " ", " ", " ">>))

\* C36 witness: `1=12` with blanks around every token is parsed to the one
\* Expr of `1=12`, after a whitespace token was skipped in each of the four
\* states of the parser
C36_Witness ==
    /\ input = <<" ", " ", " ", "1", " ", " ", " ", " ", "=", " ", " ", " ",
                 " ", "1", "2", " ", " ", " ", " ">>
    /\ outcome = parse(<<"1", "=", "1", "2">>)
    /\ outcome.kind = "ok"
    /\ Len(outcome.value) = 1
    /\ ev.act = "eof_ok"
    /\ ev.frame.step = "Join"

\* texts that fail on their own, put after a group to see whether parse
\* looks at them
Afterwards == {<<>>, <<")">>, <<"=">>, <<"'">>, <<"%">>, <<"&", "&">>, <<"(">>}

\* the call of parse that has just failed ran on the text of a group
FailedInGroup == Failed /\ ev.depth >= 2

\* the iteration before the current state scanned from an opening
\* parenthesis that nothing closes
AtUnbalancedGroup ==
    /\ ev.act # "none"
    /\ ev.frame.pos < Len(ev.frame.buffer)
    /\ ev.frame.buffer[ev.frame.pos + 1] = "("
    /\ MatchingClose(ev.frame.buffer, ev.frame.pos + 2, 1, "", "") = 0

\* parse works in one order: a nested call is made on the literal of a Group
\* token that scan() has returned, with the caller's cursor behind the group;
\* while it runs no call below it moves; nothing is done after the outcome.
InOrder ==
    /\ outcome.kind = "running"
    /\ \A i \in 1..Len(stack) - 1 :
           i < Len(stack') => stack'[i] = stack[i]
    /\ Len(stack') <= Len(stack) + 1
    /\ Len(stack') = Len(stack) + 1 =>
           LET t == Next_scan IN
           /\ t.st = "ok" /\ t.tok.kind = "Group"
           /\ stack'[Len(stack')].buffer = t.tok.literal
           /\ stack'[Len(stack')].pos = 0
           /\ stack'[Len(stack)].pos = t.pos
           /\ stack'[Len(stack)].buffer[t.pos] = ")"
           /\ MatchingClose(Top.buffer, t.pos - Len(t.tok.literal), 1, "", "")
                  = t.pos

\* C37: parse returns the error of the first step that fails, steps taken
\* in this order: tokens left to right, a group scanned to its closing
\* parenthesis before its inner text is parsed, the inner text parsed to its
\* end before the caller scans on; and it looks at nothing after that step.
\* So a group that nothing closes gives Invalid whatever its inner text
\* begins with, and after an error inside a group the text behind the group
\* does not matter.
C37_EarliestError ==
    /\ [][InOrder]_vars
    /\ [](AtUnbalancedGroup =>
              ev.act = "scan_err" /\ outcome = RetErr("Invalid"))
    /\ [](FailedInGroup =>
              \A rest \in Afterwards :
                  parse(SubSeq(ev.caller.buffer, 1, ev.caller.pos) \o rest)
                      = outcome)

\* the identifier run the last scan() started at holds `@` or `#` after its
\* first character
SigilInside ==
    /\ LookingAt(IdentifierStartChars)
    /\ \E i \in 2..Len(IdentifierRun) : IdentifierRun[i] \in {"@", "#"}

\* C38: an identifier run with `@` or `#` anywhere after its first
\* character makes scan() return Invalid, with the whole run consumed: the
\* cursor, where the following scan() starts, is behind the last character
\* of the run (and behind the NUL byte that ended the run, if one did).
C38_SigilOnlyFirst ==
    SigilInside =>
        LET end == RunEnd(input, sc.start + 2, IdentifierChars) IN
        /\ ReturnedInvalid
        /\ sc.pos >= end
        /\ sc.pos # end => (sc.pos = end + 1 /\ input[end + 1] = EOF)

\* C38 witness: the run `a@a`, `@@a` or `a#@` gave Invalid, and the scan()
\* that followed started behind it
C38_Witness ==
    /\ Len(input) = 3
    /\ input \in
           {<<"a", "@", "a">>, <<"@", "@", "a">>, <<"a", "#", "@">>}
    /\ scan(input, 0).st = "err"
    /\ scan(input, 0).err = "Invalid"
    /\ sc.calls = 2
    /\ sc.start = 3
    /\ sc.last.st = "ok"

\* the token the innermost call's scanner hands to the parser next
Reaching(kind) ==
    /\ Active
    /\ Next_scan.st = "ok"
    /\ Next_scan.tok.kind = kind

\* C39: every Sign token the scanner hands to the parser has a literal that
\* SignOp::from_str takes, and every Join token one that JoinOp::from_str
\* takes; so when parse fails with Unexpected in step Sign the token is no
\* Sign token, and in step Join no Join token: the two branches for a
\* literal that does not parse are never taken.
C39_OperatorsParse ==
    /\ Reaching("Sign") => SignOp_from_str(Next_scan.tok.literal) # None
    /\ Reaching("Join") => JoinOp_from_str(Next_scan.tok.literal) # None
    /\ ev.tok.kind = "Sign" => SignOp_from_str(ev.tok.literal) # None
    /\ ev.tok.kind = "Join" => JoinOp_from_str(ev.tok.literal) # None
    /\ (ev.act = "unexpected" /\ ev.step = "Sign") => ev.tok.kind # "Sign"
    /\ (ev.act = "unexpected" /\ ev.step = "Join") => ev.tok.kind # "Join"

\* C39 witness: a Sign token of two characters is taken in step Sign after
\* a Join token was taken in step Join, each literal naming an operator
C39_Witness ==
    /\ ev.act = "accept"
    /\ ev.step = "Sign"
    /\ ev.tok.kind = "Sign"
    /\ Len(ev.tok.literal) = 2
    /\ SignOp_from_str(ev.tok.literal) # None
    /\ \E i \in 1..Len(ev.frame.toks) :
           /\ ev.frame.toks[i].kind = "Join"
           /\ JoinOp_from_str(ev.frame.toks[i].literal) # None

=============================================================================
